---- MODULE Spec2Model ----
(***************************************************************************)
(* BoreMap: the local persistence layer (data/storage) and the application *)
(* state facade (hooks/useProjects).                                       *)
(*                                                                         *)
(* The persisted medium is one localStorage entry holding the JSON text of *)
(* the whole project collection.  Every Store function is an operator that *)
(* takes the stored entry and returns the new entry with the function's    *)
(* result; the actions call them the way a caller of the Store (Spec) or   *)
(* the facade's callbacks (FacadeSpec) do.                                 *)
(***************************************************************************)
EXTENDS Integers, Sequences, FiniteSets, TLC

\* ------------------------------------------------------------------ bounds

\* most projects in the stored collection
MaxProjects == 2
\* most boreholes of one project
MaxBoreholes == 2
\* the clock runs from 0 to MaxClock milliseconds
MaxClock == 1
\* uuidv4() is called at most MaxIds times
MaxIds == 3
\* longest borehole list handed to generateBoreholeCode in GenSpec
MaxCodes == 3

\* ------------------------------------------------------- JavaScript values

\* Strings stand for the non-numeric field values, for null and undefined and
\* for the numeric values of coordinates and depths (no arithmetic is done on
\* them); ids and timestamps are integers.
Undefined == "undefined"
Null == "null"
NaN == "NaN"

\* a || b on strings
OrElse(a, b) == IF a \in {Undefined, Null, ""} THEN b ELSE a

\* a ?? b
Nullish(a, b) == IF a \in {Undefined, Null} THEN b ELSE a

\* { ...rec, ...updates }
Spread(rec, updates) ==
  [f \in DOMAIN rec \cup DOMAIN updates |->
     IF f \in DOMAIN updates THEN updates[f] ELSE rec[f]]

\* array.findIndex(x => x.id === id), 1-based; 0 stands for -1
FindIndexById(arr, id) ==
  IF \E i \in 1..Len(arr) : arr[i].id = id
  THEN CHOOSE i \in 1..Len(arr) :
         /\ arr[i].id = id
         /\ \A j \in 1..(i - 1) : arr[j].id # id
  ELSE 0

\* array.filter(x => x.id !== id)
FilterOutId(arr, id) == SelectSeq(arr, LAMBDA x : x.id # id)

\* a T | null value: <<>> is null, <<x>> is x
None == <<>>
Some(x) == <<x>>

\* ------------------------------------------------------------ JSON text

\* JSON.stringify writes a NaN number as null; a key whose value is undefined
\* is left out, and reading a key that is not there gives undefined again.
JsonNumber(v) == IF v = NaN THEN Null ELSE v

JsonBorehole(b) ==
  [b EXCEPT !.latitude = JsonNumber(@), !.longitude = JsonNumber(@),
            !.groundLevel = JsonNumber(@), !.totalDepth = JsonNumber(@)]

JsonProject(p) ==
  [p EXCEPT !.boreholes = [i \in 1..Len(p.boreholes) |-> JsonBorehole(p.boreholes[i])]]

\* JSON.parse(JSON.stringify(projects))
JsonRoundTrip(projects) == [i \in 1..Len(projects) |-> JsonProject(projects[i])]

\* ------------------------------------------------------------ the state

VARIABLES
  stored,            \* localStorage[STORAGE_KEY]: [kind, projects]
  clock,             \* Date.now(), in milliseconds
  nextId,            \* the next value uuidv4() returns
  call,              \* the last Store function called, with its arguments
  ret,               \* what that call returned, or that it threw
  projects,          \* facade state
  currentProject,    \* facade state: None or Some(project)
  selectedBorehole,  \* facade state: None or Some(borehole)
  isLoading,         \* facade state
  error,             \* facade state: Null or a message
  fcall,             \* the last facade operation called, with its arguments
  fret,              \* what the facade operation returned, or "escaped"
  genIn,             \* GenSpec: the project handed to generateBoreholeCode
  genOut,            \* GenSpec: the code it returned
  tabs,              \* RaceSpec: each tab's Store call between its read and its write
  page               \* PageSpec: the route shown, "/" or "/project/:projectId"

storeVars == <<stored, clock, nextId, call, ret>>
facadeVars == <<projects, currentProject, selectedBorehole, isLoading, error, fcall, fret>>
genVars == <<genIn, genOut>>
raceVars == <<tabs>>
pageVars == <<page>>
vars == <<stored, clock, nextId, call, ret, projects, currentProject,
          selectedBorehole, isLoading, error, fcall, fret, genIn, genOut, tabs, page>>

\* no tab is inside a Store call
NoTabs == <<>>

\* the project list, which the route "/" shows
ProjectsPage == [route |-> "/", projectId |-> <<>>]

\* What localStorage holds under the key: nothing, the empty string, text that
\* is no JSON, JSON that is no array, or the JSON text of an array of projects;
\* "unreadable" is a storage whose access throws.
NoEntry == [kind |-> "absent", projects |-> <<>>]
ArrayEntry(ps) == [kind |-> "array", projects |-> ps]

\* results of a Store call
RetThrow == [kind |-> "throw", val |-> <<>>]
RetNull == [kind |-> "null", val |-> <<>>]
RetVoid == [kind |-> "void", val |-> <<>>]
RetValue(x) == [kind |-> "value", val |-> <<x>>]
RetBool(b) == [kind |-> IF b THEN "true" ELSE "false", val |-> <<>>]

NoCall == [op |-> "none"]

\* ------------------------------------------------------------ the Store

\* getProjects: what it returns is an array (isArray) with these items, or
\* whatever else JSON.parse produced.
getProjects(st) ==
  CASE st.kind = "array" -> [isArray |-> TRUE, items |-> st.projects]
    [] st.kind = "nonarray" -> [isArray |-> FALSE, items |-> <<>>]
    [] OTHER -> [isArray |-> TRUE, items |-> <<>>]

\* the array getProjects returns (empty when it returns something else)
Listed(st) == getProjects(st).items

\* the store holds a project with this id
HasProject(st, projectId) == FindIndexById(Listed(st), projectId) # 0

\* the first project with this id holds a borehole with that id
HasBorehole(st, projectId, boreholeId) ==
  /\ HasProject(st, projectId)
  /\ FindIndexById(Listed(st)[FindIndexById(Listed(st), projectId)].boreholes, boreholeId) # 0

\* getProject: projects.find(...) || null; throws when projects has no find
getProject(st, projectId) ==
  LET r == getProjects(st)
      i == FindIndexById(r.items, projectId)
  IN IF ~r.isArray THEN RetThrow
     ELSE IF i = 0 THEN RetNull ELSE RetValue(r.items[i])

\* a saveProjects that logs a failed write and goes on
saveProjectsSilent(st, ps, writeOK) ==
  [threw |-> FALSE, stored |-> IF writeOK THEN ArrayEntry(JsonRoundTrip(ps)) ELSE st]

\* saveProjects: setItem either stores the text or throws and stores nothing
saveProjects(st, ps, writeOK) ==
  IF writeOK
  THEN [threw |-> FALSE, stored |-> ArrayEntry(JsonRoundTrip(ps))]
  ELSE [threw |-> TRUE, stored |-> st]

\* a createProject that pushes the new project at the end
createProjectPushed(st, data, id, now, writeOK) ==
  LET project == [id |-> id,
                  name |-> data.name,
                  client |-> OrElse(data.client, ""),
                  locationDescription |-> OrElse(data.locationDescription, ""),
                  coordinateSystem |-> OrElse(data.coordinateSystem, "WGS84"),
                  boreholes |-> <<>>,
                  createdAt |-> now,
                  updatedAt |-> now,
                  status |-> "Active"]
      r == getProjects(st)
      s == saveProjects(st, Append(r.items, project), writeOK)
  IN IF ~r.isArray \/ s.threw
     THEN [ret |-> RetThrow, stored |-> st]
     ELSE [ret |-> RetValue(project), stored |-> s.stored]

\* a createProject that takes coordinateSystem as it was given
createProjectNoDefaults(st, data, id, now, writeOK) ==
  LET project == [id |-> id,
                  name |-> data.name,
                  client |-> OrElse(data.client, ""),
                  locationDescription |-> OrElse(data.locationDescription, ""),
                  coordinateSystem |-> data.coordinateSystem,
                  boreholes |-> <<>>,
                  createdAt |-> now,
                  updatedAt |-> now,
                  status |-> "Active"]
      r == getProjects(st)
      s == saveProjects(st, <<project>> \o r.items, writeOK)
  IN IF ~r.isArray \/ s.threw
     THEN [ret |-> RetThrow, stored |-> st]
     ELSE [ret |-> RetValue(project), stored |-> s.stored]

createProject(st, data, id, now, writeOK) ==
  LET project == [id |-> id,
                  name |-> data.name,
                  client |-> OrElse(data.client, ""),
                  locationDescription |-> OrElse(data.locationDescription, ""),
                  coordinateSystem |-> OrElse(data.coordinateSystem, "WGS84"),
                  boreholes |-> <<>>,
                  createdAt |-> now,
                  updatedAt |-> now,
                  status |-> "Active"]
      r == getProjects(st)
      s == saveProjects(st, <<project>> \o r.items, writeOK)
  IN IF ~r.isArray \/ s.threw
     THEN [ret |-> RetThrow, stored |-> st]
     ELSE [ret |-> RetValue(project), stored |-> s.stored]

\* an updateProject that lets the caller's updatedAt win: { updatedAt, ...updates }
updateProjectCallerStamp(st, projectId, updates, now, writeOK) ==
  LET r == getProjects(st)
      index == FindIndexById(r.items, projectId)
  IN IF ~r.isArray THEN [ret |-> RetThrow, stored |-> st]
     ELSE IF index = 0 THEN [ret |-> RetNull, stored |-> st]
     ELSE LET updated == Spread([r.items[index] EXCEPT !.updatedAt = now], updates)
              s == saveProjects(st, [r.items EXCEPT ![index] = updated], writeOK)
          IN IF s.threw THEN [ret |-> RetThrow, stored |-> st]
             ELSE [ret |-> RetValue(updated), stored |-> s.stored]

\* an updateProject that moves the updated project to the front
updateProjectToFront(st, projectId, updates, now, writeOK) ==
  LET r == getProjects(st)
      index == FindIndexById(r.items, projectId)
  IN IF ~r.isArray THEN [ret |-> RetThrow, stored |-> st]
     ELSE IF index = 0 THEN [ret |-> RetNull, stored |-> st]
     ELSE LET updated == [Spread(r.items[index], updates) EXCEPT !.updatedAt = now]
              s == saveProjects(st, <<updated>> \o FilterOutId(r.items, projectId), writeOK)
          IN IF s.threw THEN [ret |-> RetThrow, stored |-> st]
             ELSE [ret |-> RetValue(updated), stored |-> s.stored]

updateProject(st, projectId, updates, now, writeOK) ==
  LET r == getProjects(st)
      index == FindIndexById(r.items, projectId)
  IN IF ~r.isArray THEN [ret |-> RetThrow, stored |-> st]
     ELSE IF index = 0 THEN [ret |-> RetNull, stored |-> st]
     ELSE LET updated == [Spread(r.items[index], updates) EXCEPT !.updatedAt = now]
              s == saveProjects(st, [r.items EXCEPT ![index] = updated], writeOK)
          IN IF s.threw THEN [ret |-> RetThrow, stored |-> st]
             ELSE [ret |-> RetValue(updated), stored |-> s.stored]

\* a deleteProject that cuts the array at the project: projects.splice(index)
deleteProjectSpliced(st, projectId, writeOK) ==
  LET r == getProjects(st)
      index == FindIndexById(r.items, projectId)
      filtered == SubSeq(r.items, 1, index - 1)
      s == saveProjects(st, filtered, writeOK)
  IN IF ~r.isArray THEN [ret |-> RetThrow, stored |-> st]
     ELSE IF index = 0 THEN [ret |-> RetBool(FALSE), stored |-> st]
     ELSE IF s.threw THEN [ret |-> RetThrow, stored |-> st]
     ELSE [ret |-> RetBool(TRUE), stored |-> s.stored]

deleteProject(st, projectId, writeOK) ==
  LET r == getProjects(st)
      filtered == FilterOutId(r.items, projectId)
      s == saveProjects(st, filtered, writeOK)
  IN IF ~r.isArray THEN [ret |-> RetThrow, stored |-> st]
     ELSE IF Len(filtered) = Len(r.items) THEN [ret |-> RetBool(FALSE), stored |-> st]
     ELSE IF s.threw THEN [ret |-> RetThrow, stored |-> st]
     ELSE [ret |-> RetBool(TRUE), stored |-> s.stored]

\* String(num).padStart(2, '0')
PadStart2(num) == IF num < 10 THEN "0" \o ToString(num) ELSE ToString(num)

BHCode(num) == "BH" \o PadStart2(num)

Includes(arr, x) == \E i \in 1..Len(arr) : arr[i] = x

\* the while loop of generateBoreholeCode, from num on
RECURSIVE CodeLoop(_, _)
CodeLoop(existingCodes, num) ==
  IF Includes(existingCodes, BHCode(num))
  THEN CodeLoop(existingCodes, num + 1)
  ELSE num

\* a generator that numbers after the last borehole instead of filling the gap
generateBoreholeCodeByCount(project) == BHCode(Len(project.boreholes) + 1)

\* an `if` where the code has a `while`
generateBoreholeCodeIf(project) ==
  LET existingCodes == [i \in 1..Len(project.boreholes) |-> project.boreholes[i].code]
  IN BHCode(IF Includes(existingCodes, BHCode(1)) THEN 2 ELSE 1)

generateBoreholeCode(project) ==
  LET existingCodes == [i \in 1..Len(project.boreholes) |-> project.boreholes[i].code]
  IN BHCode(CodeLoop(existingCodes, 1))

\* an addBorehole that stores groundLevel and totalDepth as they were given
addBoreholeNoNull(st, projectId, data, id, now, writeOK) ==
  LET r == getProjects(st)
      index == FindIndexById(r.items, projectId)
  IN IF ~r.isArray THEN [ret |-> RetThrow, stored |-> st]
     ELSE IF index = 0 THEN [ret |-> RetNull, stored |-> st]
     ELSE LET project == r.items[index]
              borehole == [id |-> id,
                           code |-> OrElse(data.code, generateBoreholeCode(project)),
                           name |-> data.name,
                           latitude |-> data.latitude,
                           longitude |-> data.longitude,
                           groundLevel |-> data.groundLevel,
                           totalDepth |-> data.totalDepth,
                           status |-> OrElse(data.status, "Planned"),
                           notes |-> OrElse(data.notes, ""),
                           createdAt |-> now,
                           updatedAt |-> now]
              pushed == [project EXCEPT !.boreholes = Append(@, borehole),
                                        !.updatedAt = now]
              s == saveProjects(st, [r.items EXCEPT ![index] = pushed], writeOK)
          IN IF s.threw THEN [ret |-> RetThrow, stored |-> st]
             ELSE [ret |-> RetValue(borehole), stored |-> s.stored]

\* an addBorehole that replaces a code the project already has by a generated one
addBoreholeUniqueCode(st, projectId, data, id, now, writeOK) ==
  LET r == getProjects(st)
      index == FindIndexById(r.items, projectId)
  IN IF ~r.isArray THEN [ret |-> RetThrow, stored |-> st]
     ELSE IF index = 0 THEN [ret |-> RetNull, stored |-> st]
     ELSE LET project == r.items[index]
              borehole == [id |-> id,
                           code |-> IF \E k \in 1..Len(project.boreholes) :
                                        project.boreholes[k].code = data.code
                                   THEN generateBoreholeCode(project)
                                   ELSE OrElse(data.code, generateBoreholeCode(project)),
                           name |-> data.name,
                           latitude |-> data.latitude,
                           longitude |-> data.longitude,
                           groundLevel |-> Nullish(data.groundLevel, Null),
                           totalDepth |-> Nullish(data.totalDepth, Null),
                           status |-> OrElse(data.status, "Planned"),
                           notes |-> OrElse(data.notes, ""),
                           createdAt |-> now,
                           updatedAt |-> now]
              pushed == [project EXCEPT !.boreholes = Append(@, borehole),
                                        !.updatedAt = now]
              s == saveProjects(st, [r.items EXCEPT ![index] = pushed], writeOK)
          IN IF s.threw THEN [ret |-> RetThrow, stored |-> st]
             ELSE [ret |-> RetValue(borehole), stored |-> s.stored]

\* an addBorehole that puts the new borehole first: boreholes.unshift
addBoreholeFirst(st, projectId, data, id, now, writeOK) ==
  LET r == getProjects(st)
      index == FindIndexById(r.items, projectId)
  IN IF ~r.isArray THEN [ret |-> RetThrow, stored |-> st]
     ELSE IF index = 0 THEN [ret |-> RetNull, stored |-> st]
     ELSE LET project == r.items[index]
              borehole == [id |-> id,
                           code |-> OrElse(data.code, generateBoreholeCode(project)),
                           name |-> data.name,
                           latitude |-> data.latitude,
                           longitude |-> data.longitude,
                           groundLevel |-> Nullish(data.groundLevel, Null),
                           totalDepth |-> Nullish(data.totalDepth, Null),
                           status |-> OrElse(data.status, "Planned"),
                           notes |-> OrElse(data.notes, ""),
                           createdAt |-> now,
                           updatedAt |-> now]
              pushed == [project EXCEPT !.boreholes = <<borehole>> \o @,
                                        !.updatedAt = now]
              s == saveProjects(st, [r.items EXCEPT ![index] = pushed], writeOK)
          IN IF s.threw THEN [ret |-> RetThrow, stored |-> st]
             ELSE [ret |-> RetValue(borehole), stored |-> s.stored]

addBorehole(st, projectId, data, id, now, writeOK) ==
  LET r == getProjects(st)
      index == FindIndexById(r.items, projectId)
  IN IF ~r.isArray THEN [ret |-> RetThrow, stored |-> st]
     ELSE IF index = 0 THEN [ret |-> RetNull, stored |-> st]
     ELSE LET project == r.items[index]
              borehole == [id |-> id,
                           code |-> OrElse(data.code, generateBoreholeCode(project)),
                           name |-> data.name,
                           latitude |-> data.latitude,
                           longitude |-> data.longitude,
                           groundLevel |-> Nullish(data.groundLevel, Null),
                           totalDepth |-> Nullish(data.totalDepth, Null),
                           status |-> OrElse(data.status, "Planned"),
                           notes |-> OrElse(data.notes, ""),
                           createdAt |-> now,
                           updatedAt |-> now]
              pushed == [project EXCEPT !.boreholes = Append(@, borehole),
                                        !.updatedAt = now]
              s == saveProjects(st, [r.items EXCEPT ![index] = pushed], writeOK)
          IN IF s.threw THEN [ret |-> RetThrow, stored |-> st]
             ELSE [ret |-> RetValue(borehole), stored |-> s.stored]

\* an updateBorehole that stamps every borehole of the project
updateBoreholeStampAll(st, projectId, boreholeId, updates, now1, now2, writeOK) ==
  LET r == getProjects(st)
      index == FindIndexById(r.items, projectId)
      project == r.items[index]
      boreholeIndex == FindIndexById(project.boreholes, boreholeId)
  IN IF ~r.isArray THEN [ret |-> RetThrow, stored |-> st]
     ELSE IF index = 0 THEN [ret |-> RetNull, stored |-> st]
     ELSE IF boreholeIndex = 0 THEN [ret |-> RetNull, stored |-> st]
     ELSE LET updated == [Spread(project.boreholes[boreholeIndex], updates)
                            EXCEPT !.updatedAt = now1]
              stamped == [k \in 1..Len(project.boreholes) |->
                            IF k = boreholeIndex THEN updated
                            ELSE [project.boreholes[k] EXCEPT !.updatedAt = now1]]
              touched == [project EXCEPT !.boreholes = stamped, !.updatedAt = now2]
              s == saveProjects(st, [r.items EXCEPT ![index] = touched], writeOK)
          IN IF s.threw THEN [ret |-> RetThrow, stored |-> st]
             ELSE [ret |-> RetValue(updated), stored |-> s.stored]

\* an updateBorehole that merges the fields and leaves the borehole's updatedAt alone
updateBoreholeUnstamped(st, projectId, boreholeId, updates, now1, now2, writeOK) ==
  LET r == getProjects(st)
      index == FindIndexById(r.items, projectId)
      project == r.items[index]
      boreholeIndex == FindIndexById(project.boreholes, boreholeId)
  IN IF ~r.isArray THEN [ret |-> RetThrow, stored |-> st]
     ELSE IF index = 0 THEN [ret |-> RetNull, stored |-> st]
     ELSE IF boreholeIndex = 0 THEN [ret |-> RetNull, stored |-> st]
     ELSE LET updated == Spread(project.boreholes[boreholeIndex], updates)
              touched == [project EXCEPT !.boreholes[boreholeIndex] = updated,
                                         !.updatedAt = now2]
              s == saveProjects(st, [r.items EXCEPT ![index] = touched], writeOK)
          IN IF s.threw THEN [ret |-> RetThrow, stored |-> st]
             ELSE [ret |-> RetValue(updated), stored |-> s.stored]

\* now1, now2: the two new Date() readings, for the borehole and the project
updateBorehole(st, projectId, boreholeId, updates, now1, now2, writeOK) ==
  LET r == getProjects(st)
      index == FindIndexById(r.items, projectId)
      project == r.items[index]
      boreholeIndex == FindIndexById(project.boreholes, boreholeId)
  IN IF ~r.isArray THEN [ret |-> RetThrow, stored |-> st]
     ELSE IF index = 0 THEN [ret |-> RetNull, stored |-> st]
     ELSE IF boreholeIndex = 0 THEN [ret |-> RetNull, stored |-> st]
     ELSE LET updated == [Spread(project.boreholes[boreholeIndex], updates)
                            EXCEPT !.updatedAt = now1]
              touched == [project EXCEPT !.boreholes[boreholeIndex] = updated,
                                         !.updatedAt = now2]
              s == saveProjects(st, [r.items EXCEPT ![index] = touched], writeOK)
          IN IF s.threw THEN [ret |-> RetThrow, stored |-> st]
             ELSE [ret |-> RetValue(updated), stored |-> s.stored]

\* a deleteBorehole that stamps and saves before it looks whether anything went
deleteBoreholeEager(st, projectId, boreholeId, now, writeOK) ==
  LET r == getProjects(st)
      index == FindIndexById(r.items, projectId)
      project == r.items[index]
      filtered == FilterOutId(project.boreholes, boreholeId)
      touched == [project EXCEPT !.boreholes = filtered, !.updatedAt = now]
      s == saveProjects(st, [r.items EXCEPT ![index] = touched], writeOK)
  IN IF ~r.isArray THEN [ret |-> RetThrow, stored |-> st]
     ELSE IF index = 0 THEN [ret |-> RetBool(FALSE), stored |-> st]
     ELSE IF s.threw THEN [ret |-> RetThrow, stored |-> st]
     ELSE [ret |-> RetBool(Len(filtered) # Len(project.boreholes)), stored |-> s.stored]

\* the filter and the stamp applied to every project of the collection
deleteBoreholeEverywhere(st, projectId, boreholeId, now, writeOK) ==
  LET r == getProjects(st)
      index == FindIndexById(r.items, projectId)
      project == r.items[index]
      filtered == FilterOutId(project.boreholes, boreholeId)
      all == [k \in 1..Len(r.items) |->
                [r.items[k] EXCEPT !.boreholes = FilterOutId(@, boreholeId),
                                   !.updatedAt = now]]
      s == saveProjects(st, all, writeOK)
  IN IF ~r.isArray THEN [ret |-> RetThrow, stored |-> st]
     ELSE IF index = 0 THEN [ret |-> RetBool(FALSE), stored |-> st]
     ELSE IF Len(filtered) = Len(project.boreholes) THEN [ret |-> RetBool(FALSE), stored |-> st]
     ELSE IF s.threw THEN [ret |-> RetThrow, stored |-> st]
     ELSE [ret |-> RetBool(TRUE), stored |-> s.stored]

deleteBorehole(st, projectId, boreholeId, now, writeOK) ==
  LET r == getProjects(st)
      index == FindIndexById(r.items, projectId)
      project == r.items[index]
      filtered == FilterOutId(project.boreholes, boreholeId)
      touched == [project EXCEPT !.boreholes = filtered, !.updatedAt = now]
      s == saveProjects(st, [r.items EXCEPT ![index] = touched], writeOK)
  IN IF ~r.isArray THEN [ret |-> RetThrow, stored |-> st]
     ELSE IF index = 0 THEN [ret |-> RetBool(FALSE), stored |-> st]
     ELSE IF Len(filtered) = Len(project.boreholes) THEN [ret |-> RetBool(FALSE), stored |-> st]
     ELSE IF s.threw THEN [ret |-> RetThrow, stored |-> st]
     ELSE [ret |-> RetBool(TRUE), stored |-> s.stored]

\* ------------------------------------------------------------ the inputs

\* createProject's data
ProjectInputs ==
  { [name |-> "X", client |-> Undefined, locationDescription |-> Undefined,
     coordinateSystem |-> Undefined],
    [name |-> "Acme Survey", client |-> "Acme Corp", locationDescription |-> "Auckland",
     coordinateSystem |-> "WGS84"] }

\* addBorehole's data
BoreholeInputs ==
  { [code |-> Undefined, name |-> Undefined, latitude |-> "-36.84", longitude |-> "174.76",
     groundLevel |-> Undefined, totalDepth |-> Undefined, status |-> Undefined,
     notes |-> Undefined],
    [code |-> "BH01", name |-> "North Corner", latitude |-> NaN, longitude |-> "174.76",
     groundLevel |-> "12.5", totalDepth |-> Null, status |-> "Drilling",
     notes |-> "clay"] }

\* Partial<Omit<Project, 'id' | 'createdAt' | 'boreholes'>>
ProjectUpdates ==
  { [status |-> "Archived", updatedAt |-> 0] }

\* Partial<Omit<Borehole, 'id' | 'createdAt'>>
BoreholeUpdates ==
  { [status |-> "Completed"] }

\* an id uuidv4() never returned
MissingId == MaxIds + 1

\* the ids a caller may name: those of the stored projects and boreholes, and
\* one that is not in the store
ProjectIds(st) ==
  {st.projects[i].id : i \in 1..Len(st.projects)} \cup {MissingId}

BoreholeIds(st) ==
  UNION {{st.projects[i].boreholes[j].id : j \in 1..Len(st.projects[i].boreholes)} :
           i \in 1..Len(st.projects)} \cup {MissingId}

\* new Date() read a second time: the same millisecond or the next
Later(now) == {t \in {now, now + 1} : t <= MaxClock}

\* ------------------------------------------------------------ Spec: the Store's callers

Init ==
  /\ stored = NoEntry
  /\ clock = 0
  /\ nextId = 1
  /\ call = NoCall
  /\ ret = RetVoid
  /\ projects = [isArray |-> TRUE, items |-> <<>>]
  /\ currentProject = None
  /\ selectedBorehole = None
  /\ isLoading = FALSE
  /\ error = Null
  /\ fcall = NoCall
  /\ fret = RetVoid
  /\ genIn = <<>>
  /\ genOut = ""
  /\ tabs = NoTabs
  /\ page = ProjectsPage

\* no call is in progress and no result is waiting to be taken
Idle == call = NoCall /\ fcall = NoCall

\* time passes between two calls
Tick ==
  /\ Idle
  /\ clock < MaxClock
  /\ clock' = clock + 1
  /\ UNCHANGED <<stored, nextId, call, ret>>
  /\ UNCHANGED facadeVars
  /\ UNCHANGED genVars
  /\ UNCHANGED raceVars
  /\ UNCHANGED pageVars

\* the caller has taken the result of its call and goes on
Return ==
  /\ ~Idle
  /\ call' = NoCall
  /\ ret' = RetVoid
  /\ fcall' = NoCall
  /\ fret' = RetVoid
  /\ UNCHANGED <<stored, clock, nextId>>
  /\ UNCHANGED <<projects, currentProject, selectedBorehole, isLoading, error>>
  /\ UNCHANGED genVars
  /\ UNCHANGED raceVars
  /\ UNCHANGED pageVars

StoreCreateProject ==
  \E data \in ProjectInputs, writeOK \in BOOLEAN :
    /\ Idle
    /\ nextId <= MaxIds
    /\ Len(getProjects(stored).items) < MaxProjects
    /\ LET r == createProject(stored, data, nextId, clock, writeOK)
       IN /\ stored' = r.stored
          /\ ret' = r.ret
    /\ call' = [op |-> "createProject", data |-> data, writeFails |-> ~writeOK]
    /\ nextId' = nextId + 1
    /\ UNCHANGED clock
    /\ UNCHANGED facadeVars
    /\ UNCHANGED genVars
    /\ UNCHANGED raceVars
    /\ UNCHANGED pageVars

StoreUpdateProject(Updates) ==
  \E projectId \in ProjectIds(stored), updates \in Updates, writeOK \in BOOLEAN :
    /\ Idle
    /\ LET r == updateProject(stored, projectId, updates, clock, writeOK)
       IN /\ stored' = r.stored
          /\ ret' = r.ret
    /\ call' = [op |-> "updateProject", projectId |-> projectId, updates |-> updates,
                writeFails |-> ~writeOK]
    /\ UNCHANGED <<clock, nextId>>
    /\ UNCHANGED facadeVars
    /\ UNCHANGED genVars
    /\ UNCHANGED raceVars
    /\ UNCHANGED pageVars

StoreDeleteProject ==
  \E projectId \in ProjectIds(stored), writeOK \in BOOLEAN :
    /\ Idle
    /\ LET r == deleteProject(stored, projectId, writeOK)
       IN /\ stored' = r.stored
          /\ ret' = r.ret
    /\ call' = [op |-> "deleteProject", projectId |-> projectId, writeFails |-> ~writeOK]
    /\ UNCHANGED <<clock, nextId>>
    /\ UNCHANGED facadeVars
    /\ UNCHANGED genVars
    /\ UNCHANGED raceVars
    /\ UNCHANGED pageVars

\* the project's borehole list is not yet MaxBoreholes long
HasRoom(st, projectId) ==
  LET r == getProject(st, projectId)
  IN r.kind = "value" => Len(r.val[1].boreholes) < MaxBoreholes

StoreAddBorehole ==
  \E projectId \in ProjectIds(stored), data \in BoreholeInputs, writeOK \in BOOLEAN :
    /\ Idle
    /\ nextId <= MaxIds
    /\ HasRoom(stored, projectId)
    /\ LET r == addBorehole(stored, projectId, data, nextId, clock, writeOK)
       IN /\ stored' = r.stored
          /\ ret' = r.ret
          \* uuidv4() is called only once the project is found
          /\ nextId' = IF r.ret.kind = "null" THEN nextId ELSE nextId + 1
    /\ call' = [op |-> "addBorehole", projectId |-> projectId, data |-> data,
                writeFails |-> ~writeOK]
    /\ UNCHANGED clock
    /\ UNCHANGED facadeVars
    /\ UNCHANGED genVars
    /\ UNCHANGED raceVars
    /\ UNCHANGED pageVars

StoreUpdateBorehole(Updates) ==
  \E projectId \in ProjectIds(stored), boreholeId \in BoreholeIds(stored),
     updates \in Updates, now2 \in Later(clock), writeOK \in BOOLEAN :
    /\ Idle
    /\ LET r == updateBorehole(stored, projectId, boreholeId, updates, clock, now2, writeOK)
       IN /\ stored' = r.stored
          /\ ret' = r.ret
          \* the second new Date() is read once the borehole is found
          /\ clock' = IF HasBorehole(stored, projectId, boreholeId) THEN now2 ELSE clock
    /\ call' = [op |-> "updateBorehole", projectId |-> projectId,
                boreholeId |-> boreholeId, updates |-> updates,
                writeFails |-> ~writeOK]
    /\ UNCHANGED nextId
    /\ UNCHANGED facadeVars
    /\ UNCHANGED genVars
    /\ UNCHANGED raceVars
    /\ UNCHANGED pageVars

StoreDeleteBorehole ==
  \E projectId \in ProjectIds(stored), boreholeId \in BoreholeIds(stored),
     writeOK \in BOOLEAN :
    /\ Idle
    /\ LET r == deleteBorehole(stored, projectId, boreholeId, clock, writeOK)
       IN /\ stored' = r.stored
          /\ ret' = r.ret
    /\ call' = [op |-> "deleteBorehole", projectId |-> projectId,
                boreholeId |-> boreholeId, writeFails |-> ~writeOK]
    /\ UNCHANGED <<clock, nextId>>
    /\ UNCHANGED facadeVars
    /\ UNCHANGED genVars
    /\ UNCHANGED raceVars
    /\ UNCHANGED pageVars

\* listProjects(): the caller gets an array of projects or whatever was parsed
StoreGetProjects ==
  /\ Idle
  /\ LET r == getProjects(stored)
     IN ret' = IF r.isArray THEN RetValue(r.items) ELSE [kind |-> "nonarray", val |-> <<>>]
  /\ call' = [op |-> "getProjects"]
  /\ UNCHANGED <<stored, clock, nextId>>
  /\ UNCHANGED facadeVars
  /\ UNCHANGED genVars
  /\ UNCHANGED raceVars
  /\ UNCHANGED pageVars

StoreGetProject ==
  \E projectId \in ProjectIds(stored) :
    /\ Idle
    /\ ret' = getProject(stored, projectId)
    /\ call' = [op |-> "getProject", projectId |-> projectId]
    /\ UNCHANGED <<stored, clock, nextId>>
    /\ UNCHANGED facadeVars
    /\ UNCHANGED genVars
    /\ UNCHANGED raceVars
    /\ UNCHANGED pageVars

Next ==
  \/ Tick
  \/ Return
  \/ StoreGetProjects
  \/ StoreGetProject
  \/ StoreCreateProject
  \/ StoreUpdateProject(ProjectUpdates)
  \/ StoreDeleteProject
  \/ StoreAddBorehole
  \/ StoreUpdateBorehole(BoreholeUpdates)
  \/ StoreDeleteBorehole

Spec == Init /\ [][Next]_vars

\* ------------------------------------------------------------ UntypedSpec: any partial record

\* Partial<Project> and Partial<Borehole>, which the facade's updateProject and
\* updateBorehole take and hand to the Store as they are
PartialProjects == ProjectUpdates \cup {[id |-> 1, createdAt |-> 1, boreholes |-> <<>>]}

PartialBoreholes == BoreholeUpdates \cup {[id |-> 1, createdAt |-> 1]}

UntypedNext ==
  \/ Tick
  \/ Return
  \/ StoreCreateProject
  \/ StoreAddBorehole
  \/ StoreUpdateProject(PartialProjects)
  \/ StoreUpdateBorehole(PartialBoreholes)

UntypedSpec == Init /\ [][UntypedNext]_vars

\* ------------------------------------------------------------ the facade

\* The state of ProjectProvider as one record; every callback is an operator
\* that takes the state its closure saw (F), the stored entry and what the
\* environment decides (ids, clock readings, whether the write succeeds), and
\* returns the state after its setState calls, the stored entry and its result.
FacadeState == [projects |-> projects, currentProject |-> currentProject,
                selectedBorehole |-> selectedBorehole, isLoading |-> isLoading,
                error |-> error]

\* loadProjects: getProjects does not throw; what it returns is kept as it is
loadProjects(F, st) ==
  [F EXCEPT !.projects = getProjects(st), !.error = Null, !.isLoading = FALSE]

\* a loadProject that leaves the selection alone
loadProjectKeepSelection(F, st, projectId) ==
  LET r == getProject(st, projectId)
  IN IF r.kind = "throw"
     THEN [F EXCEPT !.error = "Failed to load project", !.isLoading = FALSE]
     ELSE [F EXCEPT !.currentProject = r.val, !.error = Null, !.isLoading = FALSE]

\* a loadProject that reports a project it does not find
loadProjectNotFoundError(F, st, projectId) ==
  LET r == getProject(st, projectId)
  IN IF r.kind # "value"
     THEN [F EXCEPT !.error = "Failed to load project", !.isLoading = FALSE]
     ELSE [F EXCEPT !.currentProject = r.val, !.selectedBorehole = None,
                    !.error = Null, !.isLoading = FALSE]

\* loadProject: a throw of getProject is caught here
loadProject(F, st, projectId) ==
  LET r == getProject(st, projectId)
  IN IF r.kind = "throw"
     THEN [F EXCEPT !.error = "Failed to load project", !.isLoading = FALSE]
     ELSE [F EXCEPT !.currentProject = r.val, !.selectedBorehole = None,
                    !.error = Null, !.isLoading = FALSE]

\* a createProject that keeps the message of an earlier failure
facadeCreateProjectKeepFirst(F, st, data, id, now, writeOK) ==
  LET r == createProject(st, data, id, now, writeOK)
  IN IF r.ret.kind = "throw"
     THEN [F |-> [F EXCEPT !.error = IF F.error = Null
                                     THEN "Failed to create project" ELSE F.error],
           stored |-> r.stored, ret |-> RetNull]
     ELSE [F |-> loadProjects(F, r.stored), stored |-> r.stored, ret |-> r.ret]

facadeCreateProject(F, st, data, id, now, writeOK) ==
  LET r == createProject(st, data, id, now, writeOK)
  IN IF r.ret.kind = "throw"
     THEN [F |-> [F EXCEPT !.error = "Failed to create project"],
           stored |-> r.stored, ret |-> RetNull]
     ELSE [F |-> loadProjects(F, r.stored), stored |-> r.stored, ret |-> r.ret]

facadeUpdateProject(F, st, projectId, updates, now, writeOK) ==
  LET r == updateProject(st, projectId, updates, now, writeOK)
      F1 == loadProjects(F, r.stored)
  IN IF r.ret.kind = "throw"
     THEN [F |-> [F EXCEPT !.error = "Failed to update project"],
           stored |-> r.stored, ret |-> RetVoid]
     ELSE [F |-> IF F.currentProject # None /\ F.currentProject[1].id = projectId
                 THEN loadProject(F1, r.stored, projectId)
                 ELSE F1,
           stored |-> r.stored, ret |-> RetVoid]

\* a deleteProject that drops the current project before the Store call
facadeDeleteProjectEarly(F, st, projectId, writeOK) ==
  LET r == deleteProject(st, projectId, writeOK)
      F0 == IF F.currentProject # None /\ F.currentProject[1].id = projectId
            THEN [F EXCEPT !.currentProject = None]
            ELSE F
  IN IF r.ret.kind = "throw"
     THEN [F |-> [F0 EXCEPT !.error = "Failed to delete project"],
           stored |-> r.stored, ret |-> RetVoid]
     ELSE [F |-> loadProjects(F0, r.stored), stored |-> r.stored, ret |-> RetVoid]

facadeDeleteProject(F, st, projectId, writeOK) ==
  LET r == deleteProject(st, projectId, writeOK)
      F1 == loadProjects(F, r.stored)
  IN IF r.ret.kind = "throw"
     THEN [F |-> [F EXCEPT !.error = "Failed to delete project"],
           stored |-> r.stored, ret |-> RetVoid]
     ELSE [F |-> IF F.currentProject # None /\ F.currentProject[1].id = projectId
                 THEN [F1 EXCEPT !.currentProject = None]
                 ELSE F1,
           stored |-> r.stored, ret |-> RetVoid]

\* an addBorehole that leaves the current project as it was loaded before
facadeAddBoreholeNoReload(F, st, data, id, now, writeOK) ==
  IF F.currentProject = None
  THEN [F |-> F, stored |-> st, ret |-> RetNull]
  ELSE LET r == addBorehole(st, F.currentProject[1].id, data, id, now, writeOK)
       IN IF r.ret.kind = "throw"
          THEN [F |-> [F EXCEPT !.error = "Failed to add borehole"],
                stored |-> r.stored, ret |-> RetNull]
          ELSE [F |-> F, stored |-> r.stored, ret |-> r.ret]

facadeAddBorehole(F, st, data, id, now, writeOK) ==
  IF F.currentProject = None
  THEN [F |-> F, stored |-> st, ret |-> RetNull]
  ELSE LET r == addBorehole(st, F.currentProject[1].id, data, id, now, writeOK)
       IN IF r.ret.kind = "throw"
          THEN [F |-> [F EXCEPT !.error = "Failed to add borehole"],
                stored |-> r.stored, ret |-> RetNull]
          ELSE [F |-> loadProject(F, r.stored, F.currentProject[1].id),
                stored |-> r.stored, ret |-> r.ret]

\* an updateBorehole that keeps the selected object it had
facadeUpdateBoreholeStale(F, st, boreholeId, updates, now1, now2, writeOK) ==
  IF F.currentProject = None
  THEN [F |-> F, stored |-> st, ret |-> RetVoid]
  ELSE LET r == updateBorehole(st, F.currentProject[1].id, boreholeId, updates,
                               now1, now2, writeOK)
           F1 == loadProject(F, r.stored, F.currentProject[1].id)
       IN IF r.ret.kind = "throw"
          THEN [F |-> [F EXCEPT !.error = "Failed to update borehole"],
                stored |-> r.stored, ret |-> RetVoid]
          ELSE [F |-> IF /\ F.selectedBorehole # None
                         /\ F.selectedBorehole[1].id = boreholeId
                         /\ r.ret.kind = "value"
                      THEN [F1 EXCEPT !.selectedBorehole = F.selectedBorehole]
                      ELSE F1,
                stored |-> r.stored, ret |-> RetVoid]

facadeUpdateBorehole(F, st, boreholeId, updates, now1, now2, writeOK) ==
  IF F.currentProject = None
  THEN [F |-> F, stored |-> st, ret |-> RetVoid]
  ELSE LET r == updateBorehole(st, F.currentProject[1].id, boreholeId, updates,
                               now1, now2, writeOK)
           F1 == loadProject(F, r.stored, F.currentProject[1].id)
       IN IF r.ret.kind = "throw"
          THEN [F |-> [F EXCEPT !.error = "Failed to update borehole"],
                stored |-> r.stored, ret |-> RetVoid]
          ELSE [F |-> IF /\ F.selectedBorehole # None
                         /\ F.selectedBorehole[1].id = boreholeId
                         /\ r.ret.kind = "value"
                      THEN [F1 EXCEPT !.selectedBorehole = r.ret.val]
                      ELSE F1,
                stored |-> r.stored, ret |-> RetVoid]

facadeDeleteBorehole(F, st, boreholeId, now, writeOK) ==
  IF F.currentProject = None
  THEN [F |-> F, stored |-> st, ret |-> RetVoid]
  ELSE LET r == deleteBorehole(st, F.currentProject[1].id, boreholeId, now, writeOK)
           F1 == loadProject(F, r.stored, F.currentProject[1].id)
       IN IF r.ret.kind = "throw"
          THEN [F |-> [F EXCEPT !.error = "Failed to delete borehole"],
                stored |-> r.stored, ret |-> RetVoid]
          ELSE [F |-> IF F.selectedBorehole # None /\ F.selectedBorehole[1].id = boreholeId
                      THEN [F1 EXCEPT !.selectedBorehole = None]
                      ELSE F1,
                stored |-> r.stored, ret |-> RetVoid]

\* ------------------------------------------------------------ FacadeSpec: the facade's callers

\* the provider as constructed: useState's initial values, an empty localStorage
FacadeInit ==
  /\ stored = NoEntry
  /\ clock = 0
  /\ nextId = 1
  /\ call = NoCall
  /\ ret = RetVoid
  /\ projects = [isArray |-> TRUE, items |-> <<>>]
  /\ currentProject = None
  /\ selectedBorehole = None
  /\ isLoading = FALSE
  /\ error = Null
  /\ fcall = NoCall
  /\ fret = RetVoid
  /\ genIn = <<>>
  /\ genOut = ""
  /\ tabs = NoTabs
  /\ page = ProjectsPage

\* the facade's state after a callback, from the record it returned
SetState(F) ==
  /\ projects' = F.projects
  /\ currentProject' = F.currentProject
  /\ selectedBorehole' = F.selectedBorehole
  /\ isLoading' = F.isLoading
  /\ error' = F.error

LoadProjects ==
  /\ Idle
  /\ SetState(loadProjects(FacadeState, stored))
  /\ fcall' = [op |-> "loadProjects"]
  /\ fret' = RetVoid
  /\ UNCHANGED storeVars
  /\ UNCHANGED genVars
  /\ UNCHANGED raceVars
  /\ UNCHANGED pageVars

LoadProject ==
  \E projectId \in ProjectIds(stored) :
    /\ Idle
    /\ SetState(loadProject(FacadeState, stored, projectId))
    /\ fcall' = [op |-> "loadProject", projectId |-> projectId]
    /\ fret' = RetVoid
    /\ UNCHANGED storeVars
    /\ UNCHANGED genVars
    /\ UNCHANGED raceVars
    /\ UNCHANGED pageVars

CreateProject ==
  \E data \in ProjectInputs, writeOK \in BOOLEAN :
    /\ Idle
    /\ nextId <= MaxIds
    /\ Len(getProjects(stored).items) < MaxProjects
    /\ LET r == facadeCreateProject(FacadeState, stored, data, nextId, clock, writeOK)
       IN /\ SetState(r.F)
          /\ stored' = r.stored
          /\ fret' = r.ret
    /\ fcall' = [op |-> "createProject", data |-> data, writeFails |-> ~writeOK]
    /\ nextId' = nextId + 1
    /\ UNCHANGED <<clock, call, ret>>
    /\ UNCHANGED genVars
    /\ UNCHANGED raceVars
    /\ UNCHANGED pageVars

UpdateProject ==
  \E projectId \in ProjectIds(stored), updates \in ProjectUpdates, writeOK \in BOOLEAN :
    /\ Idle
    /\ LET r == facadeUpdateProject(FacadeState, stored, projectId, updates, clock, writeOK)
       IN /\ SetState(r.F)
          /\ stored' = r.stored
          /\ fret' = r.ret
    /\ fcall' = [op |-> "updateProject", projectId |-> projectId, updates |-> updates,
                 writeFails |-> ~writeOK]
    /\ UNCHANGED <<clock, nextId, call, ret>>
    /\ UNCHANGED genVars
    /\ UNCHANGED raceVars
    /\ UNCHANGED pageVars

DeleteProject ==
  \E projectId \in ProjectIds(stored), writeOK \in BOOLEAN :
    /\ Idle
    /\ LET r == facadeDeleteProject(FacadeState, stored, projectId, writeOK)
       IN /\ SetState(r.F)
          /\ stored' = r.stored
          /\ fret' = r.ret
    /\ fcall' = [op |-> "deleteProject", projectId |-> projectId, writeFails |-> ~writeOK]
    /\ UNCHANGED <<clock, nextId, call, ret>>
    /\ UNCHANGED genVars
    /\ UNCHANGED raceVars
    /\ UNCHANGED pageVars

\* the current project, as stored, has room for one more borehole
CurrentHasRoom ==
  currentProject # None => HasRoom(stored, currentProject[1].id)

AddBorehole ==
  \E data \in BoreholeInputs, writeOK \in BOOLEAN :
    /\ Idle
    /\ nextId <= MaxIds
    /\ CurrentHasRoom
    /\ LET r == facadeAddBorehole(FacadeState, stored, data, nextId, clock, writeOK)
       IN /\ SetState(r.F)
          /\ stored' = r.stored
          /\ fret' = r.ret
          \* uuidv4() is called only once the Store has found the project
          /\ nextId' = IF /\ currentProject # None
                          /\ getProject(stored, currentProject[1].id).kind = "value"
                       THEN nextId + 1 ELSE nextId
    /\ fcall' = [op |-> "addBorehole", data |-> data, writeFails |-> ~writeOK]
    /\ UNCHANGED <<clock, call, ret>>
    /\ UNCHANGED genVars
    /\ UNCHANGED raceVars
    /\ UNCHANGED pageVars

UpdateBorehole ==
  \E boreholeId \in BoreholeIds(stored), updates \in BoreholeUpdates,
     now2 \in Later(clock), writeOK \in BOOLEAN :
    /\ Idle
    /\ LET r == facadeUpdateBorehole(FacadeState, stored, boreholeId, updates,
                                     clock, now2, writeOK)
       IN /\ SetState(r.F)
          /\ stored' = r.stored
          /\ fret' = r.ret
          \* the second new Date() is read once the borehole is found
          /\ clock' = IF /\ currentProject # None
                         /\ HasBorehole(stored, currentProject[1].id, boreholeId)
                      THEN now2 ELSE clock
    /\ fcall' = [op |-> "updateBorehole", boreholeId |-> boreholeId, updates |-> updates,
                 writeFails |-> ~writeOK]
    /\ UNCHANGED <<nextId, call, ret>>
    /\ UNCHANGED genVars
    /\ UNCHANGED raceVars
    /\ UNCHANGED pageVars

DeleteBorehole ==
  \E boreholeId \in BoreholeIds(stored), writeOK \in BOOLEAN :
    /\ Idle
    /\ LET r == facadeDeleteBorehole(FacadeState, stored, boreholeId, clock, writeOK)
       IN /\ SetState(r.F)
          /\ stored' = r.stored
          /\ fret' = r.ret
    \* selected: the selectedBorehole the callback's closure holds
    /\ fcall' = [op |-> "deleteBorehole", boreholeId |-> boreholeId,
                 selected |-> selectedBorehole, writeFails |-> ~writeOK]
    /\ UNCHANGED <<clock, nextId, call, ret>>
    /\ UNCHANGED genVars
    /\ UNCHANGED raceVars
    /\ UNCHANGED pageVars

\* the table, the map and the drawer select a borehole of the current project, or none
Selectable ==
  {None} \cup (IF currentProject = None THEN {}
               ELSE {Some(currentProject[1].boreholes[i]) :
                       i \in 1..Len(currentProject[1].boreholes)})

SelectBorehole ==
  \E borehole \in Selectable :
    /\ Idle
    /\ selectedBorehole' = borehole
    /\ fcall' = [op |-> "selectBorehole", borehole |-> borehole]
    /\ fret' = RetVoid
    /\ UNCHANGED <<projects, currentProject, isLoading, error>>
    /\ UNCHANGED storeVars
    /\ UNCHANGED genVars
    /\ UNCHANGED raceVars
    /\ UNCHANGED pageVars

ClearError ==
  /\ Idle
  /\ error' = Null
  /\ fcall' = [op |-> "clearError"]
  /\ fret' = RetVoid
  /\ UNCHANGED <<projects, currentProject, selectedBorehole, isLoading>>
  /\ UNCHANGED storeVars
  /\ UNCHANGED genVars
  /\ UNCHANGED raceVars
  /\ UNCHANGED pageVars

FacadeNext ==
  \/ Tick
  \/ Return
  \/ LoadProjects
  \/ LoadProject
  \/ CreateProject
  \/ UpdateProject
  \/ DeleteProject
  \/ AddBorehole
  \/ UpdateBorehole
  \/ DeleteBorehole
  \/ SelectBorehole
  \/ ClearError

FacadeSpec == FacadeInit /\ [][FacadeNext]_vars

\* ------------------------------------------------------------ GenSpec: generateBoreholeCode alone

\* the codes of the boreholes handed to generateBoreholeCode
CodeSet == {"BH01", "BH02", "BH03", "BH04", "BH1", "Pit A"}

GenProjects ==
  {[boreholes |-> bs] :
     bs \in UNION {[1..n -> {[code |-> c] : c \in CodeSet}] : n \in 0..MaxCodes}}

GenInit ==
  /\ stored = NoEntry
  /\ clock = 0
  /\ nextId = 1
  /\ call = NoCall
  /\ ret = RetVoid
  /\ projects = [isArray |-> TRUE, items |-> <<>>]
  /\ currentProject = None
  /\ selectedBorehole = None
  /\ isLoading = FALSE
  /\ error = Null
  /\ fcall = NoCall
  /\ fret = RetVoid
  /\ genIn \in GenProjects
  /\ genOut = ""
  /\ tabs = NoTabs
  /\ page = ProjectsPage

Generate ==
  /\ genOut = ""
  /\ genOut' = generateBoreholeCode(genIn)
  /\ UNCHANGED genIn
  /\ UNCHANGED storeVars
  /\ UNCHANGED facadeVars
  /\ UNCHANGED raceVars
  /\ UNCHANGED pageVars

GenNext == Generate

GenSpec == GenInit /\ [][GenNext]_vars

\* ------------------------------------------------------------ CorruptSpec: any stored text

\* the entry was written by something else than saveProjects, or cannot be read
InitCorrupt ==
  /\ stored \in {NoEntry,
                 [kind |-> "empty", projects |-> <<>>],
                 [kind |-> "invalid", projects |-> <<>>],
                 [kind |-> "nonarray", projects |-> <<>>],
                 [kind |-> "unreadable", projects |-> <<>>]}
  /\ clock = 0
  /\ nextId = 1
  /\ call = NoCall
  /\ ret = RetVoid
  /\ projects = [isArray |-> TRUE, items |-> <<>>]
  /\ currentProject = None
  /\ selectedBorehole = None
  /\ isLoading = FALSE
  /\ error = Null
  /\ fcall = NoCall
  /\ fret = RetVoid
  /\ genIn = <<>>
  /\ genOut = ""
  /\ tabs = NoTabs
  /\ page = ProjectsPage

CorruptSpec == InitCorrupt /\ [][Next]_vars

\* ------------------------------------------------------------ SeededSpec: the sample data

\* 24 * 60 * 60 * 1000 milliseconds
Day == 24 * 60 * 60 * 1000

\* Math.floor(Math.random() * 3) picks one of these
SampleStatuses == {"Completed", "Drilling", "Planned"}

\* sampleProjects, cut down to its first two projects with one borehole each:
\* "Auckland" with the literal BH01, "Wellington" with Array.from's first
\* borehole, whose status is random; the ids are uuidv4() in the order of the
\* literal
sampleProjects(id, now, status) ==
  << [id |-> id,
      name |-> "Auckland Site Investigation",
      client |-> "Acme Corp",
      locationDescription |-> "Central Auckland, New Zealand",
      coordinateSystem |-> "WGS84",
      status |-> "Active",
      createdAt |-> now - 2 * Day,
      updatedAt |-> now - 2 * Day,
      boreholes |-> << [id |-> id + 1, code |-> "BH01", name |-> "North Corner",
                        latitude |-> "40.7128", longitude |-> "-74.006",
                        groundLevel |-> "12.5", totalDepth |-> "15",
                        status |-> "Completed",
                        notes |-> "Sandy soil with groundwater at 8m",
                        createdAt |-> now, updatedAt |-> now] >>],
     [id |-> id + 2,
      name |-> "Wellington Geotechnical Survey",
      client |-> "Globex Inc",
      locationDescription |-> "Wellington CBD",
      coordinateSystem |-> "WGS84",
      status |-> "Active",
      createdAt |-> now - 7 * Day,
      updatedAt |-> now - 7 * Day,
      boreholes |-> << [id |-> id + 3, code |-> BHCode(1), name |-> "",
                        latitude |-> "-41.2865", longitude |-> "174.7762",
                        groundLevel |-> "8", totalDepth |-> "10",
                        status |-> status,
                        notes |-> "",
                        createdAt |-> now, updatedAt |-> now] >>] >>

\* the uuidv4() calls one seeding makes: one for each project and borehole
SampleIdCount ==
  LET ps == sampleProjects(0, 0, "Planned")
  IN Len(ps) + Len(ps[1].boreholes) + Len(ps[2].boreholes)

\* initializeSampleData: returns when the listed array has a project, else
\* writes the sample projects
initializeSampleData(st, id, now, status, writeOK) ==
  LET r == getProjects(st)
      s == saveProjects(st, sampleProjects(id, now, status), writeOK)
  IN IF Len(r.items) > 0 THEN [ret |-> RetVoid, stored |-> st]
     ELSE IF s.threw THEN [ret |-> RetThrow, stored |-> st]
     ELSE [ret |-> RetVoid, stored |-> s.stored]

\* the state after the application was first started on an empty localStorage:
\* App.tsx has called initializeSampleData while it was loaded; uuidv4() has
\* returned the ids below MaxIds, which leaves one id for the Store's callers
\* before the counter reaches its bound
InitSeeded ==
  /\ \E status \in SampleStatuses :
       stored = initializeSampleData(NoEntry, MaxIds - SampleIdCount, 0, status, TRUE).stored
  /\ clock = 0
  /\ nextId = MaxIds
  /\ call = NoCall
  /\ ret = RetVoid
  /\ projects = [isArray |-> TRUE, items |-> <<>>]
  /\ currentProject = None
  /\ selectedBorehole = None
  /\ isLoading = FALSE
  /\ error = Null
  /\ fcall = NoCall
  /\ fret = RetVoid
  /\ genIn = <<>>
  /\ genOut = ""
  /\ tabs = NoTabs
  /\ page = ProjectsPage

\* the application is started again: App.tsx calls initializeSampleData
AppStart ==
  \E status \in SampleStatuses, writeOK \in BOOLEAN :
    /\ Idle
    /\ nextId <= MaxIds + 1
    /\ LET r == initializeSampleData(stored, nextId, clock, status, writeOK)
       IN /\ stored' = r.stored
          /\ ret' = r.ret
    \* uuidv4() is called only once the list was found empty
    /\ nextId' = IF Len(Listed(stored)) > 0 THEN nextId ELSE nextId + SampleIdCount
    /\ call' = [op |-> "initializeSampleData", writeFails |-> ~writeOK]
    /\ UNCHANGED clock
    /\ UNCHANGED facadeVars
    /\ UNCHANGED genVars
    /\ UNCHANGED raceVars
    /\ UNCHANGED pageVars

SeededNext ==
  \/ Tick
  \/ Return
  \/ AppStart
  \/ StoreCreateProject
  \/ StoreUpdateProject(ProjectUpdates)
  \/ StoreDeleteProject
  \/ StoreAddBorehole
  \/ StoreUpdateBorehole(BoreholeUpdates)
  \/ StoreDeleteBorehole

SeededSpec == InitSeeded /\ [][SeededNext]_vars

\* ------------------------------------------------------------ RaceSpec: two tabs on one entry

\* Each tab runs the Store's functions on its own thread; the entry is shared.
\* A Store function reads the entry once (getProjects) and writes it once
\* (saveProjects); another tab can run between the two.
Tabs == {1, 2}

IdleTab ==
  [pc |-> "idle", snapshot |-> NoEntry, call |-> NoCall, id |-> 0, now |-> 0,
   stale |-> FALSE, lost |-> {}, writeFails |-> FALSE]

\* localStorage.setItem replaces the entry's whole text with the caller's
setItemIfUnchanged(current, tab, value) ==
  IF current = tab.snapshot THEN value ELSE current

setItem(current, tab, value) == value

\* the Store function a tab is inside, run on what the tab read
TabApply(tab, writeOK) ==
  CASE tab.call.op = "createProject" ->
         createProject(tab.snapshot, tab.call.data, tab.id, tab.now, writeOK)
    [] tab.call.op = "addBorehole" ->
         addBorehole(tab.snapshot, tab.call.projectId, tab.call.data, tab.id, tab.now, writeOK)
    [] tab.call.op = "deleteProject" ->
         deleteProject(tab.snapshot, tab.call.projectId, writeOK)

\* the function reached saveProjects and setItem did not throw
TabWrote(tab, writeOK) == TabApply(tab, writeOK).ret.kind \in {"value", "true"}

RaceCalls ==
  {[op |-> "createProject", data |-> data] : data \in ProjectInputs}
  \cup {[op |-> "addBorehole", projectId |-> projectId, data |-> data] :
          projectId \in ProjectIds(stored), data \in BoreholeInputs}
  \cup {[op |-> "deleteProject", projectId |-> projectId] : projectId \in ProjectIds(stored)}

InitRace ==
  /\ \E data \in ProjectInputs : stored = createProject(NoEntry, data, 1, 0, TRUE).stored
  /\ clock = 0
  /\ nextId = 2
  /\ call = NoCall
  /\ ret = RetVoid
  /\ projects = <<>>
  /\ currentProject = None
  /\ selectedBorehole = None
  /\ isLoading = TRUE
  /\ error = None
  /\ fcall = NoCall
  /\ fret = RetVoid
  /\ genIn = <<>>
  /\ genOut = ""
  /\ tabs = [t \in Tabs |-> IdleTab]
  /\ page = ProjectsPage

\* the tab enters a Store function: getProjects, then uuidv4 and the Date
TabRead(t) ==
  \E c \in RaceCalls :
    /\ tabs[t].pc \in {"idle", "done"}
    /\ nextId <= MaxIds
    /\ tabs' = [tabs EXCEPT ![t] = [pc |-> "read", snapshot |-> stored, call |-> c,
                                    id |-> nextId, now |-> clock,
                                    stale |-> FALSE, lost |-> {},
                                    writeFails |-> FALSE]]
    /\ nextId' = IF c.op = "deleteProject" THEN nextId ELSE nextId + 1
    /\ UNCHANGED <<stored, clock, call, ret>>
    /\ UNCHANGED facadeVars
    /\ UNCHANGED genVars
    /\ UNCHANGED pageVars

\* the tab leaves the function: saveProjects of what it computed from its read
TabWrite(t) ==
  \E writeOK \in BOOLEAN :
    LET tab == tabs[t]
        r == TabApply(tab, writeOK)
        wrote == TabWrote(tab, writeOK)
        made == IF wrote /\ tab.call.op # "deleteProject" THEN {tab.id} ELSE {}
    IN /\ tab.pc = "read"
       /\ stored' = IF wrote THEN setItem(stored, tab, r.stored) ELSE stored
       /\ tabs' = [u \in Tabs |->
                     IF u = t THEN [tab EXCEPT !.pc = "done", !.writeFails = ~writeOK]
                     ELSE IF tabs[u].pc = "read" /\ wrote
                          THEN [tabs[u] EXCEPT !.stale = TRUE, !.lost = @ \cup made]
                          ELSE tabs[u]]
       /\ UNCHANGED <<clock, nextId, call, ret>>
       /\ UNCHANGED facadeVars
       /\ UNCHANGED genVars
       /\ UNCHANGED pageVars

RaceNext ==
  \/ Tick
  \/ \E t \in Tabs : TabRead(t)
  \/ \E t \in Tabs : TabWrite(t)

RaceSpec == InitRace /\ [][RaceNext]_vars

\* ------------------------------------------------------------ CodeSpec: codes left to the Store

\* the callers that never pass a code: addBorehole with data.code undefined,
\* updateBorehole with updates that hold no code
GeneratedInputs == {data \in BoreholeInputs : data.code = Undefined}

InitCode ==
  /\ \E data \in ProjectInputs : stored = createProject(NoEntry, data, 1, 0, TRUE).stored
  /\ clock = 0
  /\ nextId = 2
  /\ call = NoCall
  /\ ret = RetVoid
  /\ projects = <<>>
  /\ currentProject = None
  /\ selectedBorehole = None
  /\ isLoading = TRUE
  /\ error = None
  /\ fcall = NoCall
  /\ fret = RetVoid
  /\ genIn = <<>>
  /\ genOut = ""
  /\ tabs = NoTabs
  /\ page = ProjectsPage

StoreAddGenerated ==
  \E projectId \in ProjectIds(stored), data \in GeneratedInputs, writeOK \in BOOLEAN :
    /\ Idle
    /\ nextId <= MaxIds + MaxBoreholes
    /\ \A i \in 1..Len(Listed(stored)) :
         Listed(stored)[i].id = projectId =>
           Len(Listed(stored)[i].boreholes) <= MaxBoreholes
    /\ LET r == addBorehole(stored, projectId, data, nextId, clock, writeOK)
       IN /\ stored' = r.stored
          /\ ret' = r.ret
          /\ nextId' = IF r.ret.kind = "null" THEN nextId ELSE nextId + 1
    /\ call' = [op |-> "addBorehole", projectId |-> projectId, data |-> data,
                writeFails |-> ~writeOK]
    /\ UNCHANGED clock
    /\ UNCHANGED facadeVars
    /\ UNCHANGED genVars
    /\ UNCHANGED raceVars
    /\ UNCHANGED pageVars

CodeNext ==
  \/ Tick
  \/ Return
  \/ StoreAddGenerated
  \/ StoreUpdateBorehole(BoreholeUpdates)
  \/ StoreDeleteBorehole

CodeSpec == InitCode /\ [][CodeNext]_vars

\* ------------------------------------------------------------ PageSpec: the two pages

\* the workspace of one project, which the route "/project/:projectId" shows
WorkspacePage(projectId) == [route |-> "/project/:projectId", projectId |-> Some(projectId)]

\* ProjectsPage, "New project": createProject, then the workspace of the
\* project when one is returned
HandleCreateProject ==
  \E data \in ProjectInputs, writeOK \in BOOLEAN :
    /\ Idle
    /\ page = ProjectsPage
    /\ nextId <= MaxIds
    /\ Len(getProjects(stored).items) < MaxProjects
    /\ LET r == facadeCreateProject(FacadeState, stored, data, nextId, clock, writeOK)
       IN /\ SetState(r.F)
          /\ stored' = r.stored
          /\ fret' = r.ret
          /\ page' = IF r.ret.kind = "value" THEN WorkspacePage(r.ret.val[1].id) ELSE page
    /\ fcall' = [op |-> "createProject", data |-> data, writeFails |-> ~writeOK]
    /\ nextId' = nextId + 1
    /\ UNCHANGED <<clock, call, ret>>
    /\ UNCHANGED genVars
    /\ UNCHANGED raceVars

\* ProjectsPage, a click on a project card
OpenProject ==
  \E i \in 1..Len(projects.items) :
    /\ Idle
    /\ page = ProjectsPage
    /\ page' = WorkspacePage(projects.items[i].id)
    /\ UNCHANGED storeVars
    /\ UNCHANGED facadeVars
    /\ UNCHANGED genVars
    /\ UNCHANGED raceVars

\* WorkspacePage, the effect on mount: loadProject(projectId)
MountWorkspace ==
  /\ Idle
  /\ page # ProjectsPage
  /\ SetState(loadProject(FacadeState, stored, page.projectId[1]))
  /\ fcall' = [op |-> "loadProject", projectId |-> page.projectId[1]]
  /\ fret' = RetVoid
  /\ UNCHANGED storeVars
  /\ UNCHANGED genVars
  /\ UNCHANGED raceVars
  /\ UNCHANGED pageVars

\* WorkspacePage, the redirect when no project is current
RedirectMissing ==
  /\ Idle
  /\ page # ProjectsPage
  /\ currentProject = None
  /\ page' = ProjectsPage
  /\ UNCHANGED storeVars
  /\ UNCHANGED facadeVars
  /\ UNCHANGED genVars
  /\ UNCHANGED raceVars

\* WorkspacePage, "Delete project": the prompt, then navigate('/') when the
\* user confirms.  The page renders the button only with a current project.
HandleDeleteProject ==
  \E confirmed \in BOOLEAN :
    /\ Idle
    /\ page # ProjectsPage
    /\ currentProject # None
    /\ page' = IF confirmed THEN ProjectsPage ELSE page
    /\ fcall' = [op |-> "Delete project", projectId |-> currentProject[1].id,
                 confirmed |-> confirmed]
    /\ fret' = RetVoid
    /\ UNCHANGED <<projects, currentProject, selectedBorehole, isLoading, error>>
    /\ UNCHANGED storeVars
    /\ UNCHANGED genVars
    /\ UNCHANGED raceVars

PageNext ==
  \/ Tick
  \/ Return
  \/ HandleCreateProject
  \/ OpenProject
  \/ MountWorkspace
  \/ RedirectMissing
  \/ HandleDeleteProject

PageSpec == FacadeInit /\ [][PageNext]_vars

\* ------------------------------------------------------------ the Store's claims

Mutators ==
  {"createProject", "updateProject", "deleteProject",
   "addBorehole", "updateBorehole", "deleteBorehole"}

\* C1: after createProject returns P, the listing is P followed by the previous
\* collection in unchanged order, and P's id occurs in it once.
C1_CreatedProjectListedFirst ==
  [][(call'.op = "createProject" /\ ret'.kind = "value") =>
       LET P == ret'.val[1]
           before == Listed(stored)
           after == Listed(stored')
       IN /\ Len(after) = Len(before) + 1
          /\ after[1] = P
          /\ Cardinality({i \in 1..Len(after) : after[i].id = P.id}) = 1
          /\ \A i \in 1..Len(before) : after[i + 1] = before[i]]_vars

C1_Witness ==
  /\ call.op = "createProject"
  /\ ret.kind = "value"
  /\ Len(Listed(stored)) = 2
  /\ Listed(stored)[1] = ret.val[1]

\* what generateBoreholeCode is to return for the number n
ExpectedCode == <<"BH01", "BH02", "BH03", "BH04", "BH05", "BH06">>

GenCodes == {genIn.boreholes[i].code : i \in 1..Len(genIn.boreholes)}

\* C2: generateBoreholeCode returns "BH" and the smallest n >= 1, padded to two
\* digits, whose code no borehole of the project has: "BH01" for no boreholes,
\* "BH03" for the codes BH01, BH02, BH04; never a code the project has.
C2_LowestUnusedCode ==
  genOut # "" =>
    /\ \E n \in 1..(Len(genIn.boreholes) + 1) :
         /\ genOut = ExpectedCode[n]
         /\ \A m \in 1..(n - 1) : ExpectedCode[m] \in GenCodes
    /\ genOut \notin GenCodes
    /\ (genIn.boreholes = <<>> => genOut = "BH01")
    /\ (GenCodes = {"BH01", "BH02", "BH04"} => genOut = "BH03")

C2_Witness ==
  /\ genOut = "BH03"
  /\ GenCodes = {"BH01", "BH02", "BH04"}

\* the fields of a record other than those named
Without(rec, fields) == [f \in DOMAIN rec \ fields |-> rec[f]]

\* C4: updateBorehole(pid, bid, {status: "Completed"}) on an existing borehole
\* changes that borehole's status and updatedAt and the project's updatedAt,
\* and nothing else: not the borehole's other fields, not its place, not the
\* other boreholes, not the other projects.
C4_StatusUpdateFrame ==
  [][(/\ call'.op = "updateBorehole"
      /\ call'.updates = [status |-> "Completed"]
      /\ ret'.kind = "value") =>
       LET before == Listed(stored)
           after == Listed(stored')
           i == FindIndexById(before, call'.projectId)
           j == FindIndexById(before[i].boreholes, call'.boreholeId)
       IN /\ Len(after) = Len(before)
          /\ \A k \in 1..Len(before) : k # i => after[k] = before[k]
          /\ Without(after[i], {"boreholes", "updatedAt"})
               = Without(before[i], {"boreholes", "updatedAt"})
          /\ Len(after[i].boreholes) = Len(before[i].boreholes)
          /\ \A k \in 1..Len(before[i].boreholes) :
               k # j => after[i].boreholes[k] = before[i].boreholes[k]
          /\ Without(after[i].boreholes[j], {"status", "updatedAt"})
               = Without(before[i].boreholes[j], {"status", "updatedAt"})
          /\ after[i].boreholes[j].status = "Completed"]_vars

C4_Witness ==
  /\ call.op = "updateBorehole"
  /\ call.updates = [status |-> "Completed"]
  /\ ret.kind = "value"
  /\ \E i \in 1..Len(Listed(stored)) :
       /\ Listed(stored)[i].id = call.projectId
       /\ Len(Listed(stored)[i].boreholes) = 2
       /\ Listed(stored)[i].boreholes[2].id = call.boreholeId

\* the borehole bid of project pid in the stored collection
StoredBorehole(st, projectId, boreholeId) ==
  LET p == Listed(st)[FindIndexById(Listed(st), projectId)]
  IN p.boreholes[FindIndexById(p.boreholes, boreholeId)]

\* C5, as claimed: every successful updateBorehole sets the borehole's updatedAt
\* to a value strictly greater than its updatedAt before the call.
C5_UpdatedAtStrictlyGreater ==
  [][(call'.op = "updateBorehole" /\ ret'.kind = "value") =>
       StoredBorehole(stored', call'.projectId, call'.boreholeId).updatedAt
         > StoredBorehole(stored, call'.projectId, call'.boreholeId).updatedAt]_vars

\* C5, amended: every successful updateBorehole sets the borehole's updatedAt to
\* the clock's reading at the call, which is never less than its updatedAt
\* before the call (and equal to it within the same millisecond).
C5_UpdatedAtIsCallTime ==
  [][(call'.op = "updateBorehole" /\ ret'.kind = "value") =>
       LET was == StoredBorehole(stored, call'.projectId, call'.boreholeId).updatedAt
           is == StoredBorehole(stored', call'.projectId, call'.boreholeId).updatedAt
       IN /\ is = clock
          /\ is = ret'.val[1].updatedAt
          /\ is >= was]_vars

\* an update in the millisecond of the borehole's creation or last update
C5_Witness ==
  /\ call.op = "updateBorehole"
  /\ ret.kind = "value"
  /\ ret.val[1].updatedAt = ret.val[1].createdAt

\* C6: a mutation that names an id the store does not hold returns absent
\* (updateProject, updateBorehole, addBorehole) or false (deleteProject,
\* deleteBorehole) and leaves the stored entry as it was.
C6_MissingIdNoSideEffect ==
  [][/\ (call'.op \in {"updateProject", "addBorehole"}
           /\ ~HasProject(stored, call'.projectId))
          => (ret'.kind = "null" /\ stored' = stored)
     /\ (call'.op = "updateBorehole"
           /\ ~HasBorehole(stored, call'.projectId, call'.boreholeId))
          => (ret'.kind = "null" /\ stored' = stored)
     /\ (call'.op = "deleteProject" /\ ~HasProject(stored, call'.projectId))
          => (ret'.kind = "false" /\ stored' = stored)
     /\ (call'.op = "deleteBorehole"
           /\ ~HasBorehole(stored, call'.projectId, call'.boreholeId))
          => (ret'.kind = "false" /\ stored' = stored)]_vars

\* deleteBorehole of a borehole that an existing, non-empty project does not hold
C6_Witness ==
  /\ call.op = "deleteBorehole"
  /\ ret.kind = "false"
  /\ HasProject(stored, call.projectId)
  /\ ~HasBorehole(stored, call.projectId, call.boreholeId)
  /\ \E i \in 1..Len(Listed(stored)) :
       Listed(stored)[i].id = call.projectId /\ Listed(stored)[i].boreholes # <<>>

\* the call gets as far as saveProjects
ReachesWrite(st, c) ==
  CASE c.op = "createProject" -> TRUE
    [] c.op \in {"updateProject", "deleteProject", "addBorehole"} ->
         HasProject(st, c.projectId)
    [] c.op \in {"updateBorehole", "deleteBorehole"} ->
         HasBorehole(st, c.projectId, c.boreholeId)
    [] OTHER -> FALSE

\* C7: when the write fails, a mutating Store operation that reaches it throws
\* instead of returning, and the stored entry is what it was before the call.
C7_FailedWriteThrows ==
  [][(call'.op \in Mutators /\ call'.writeFails /\ ReachesWrite(stored, call')) =>
       (ret'.kind = "throw" /\ stored' = stored)]_vars

C7_Witness ==
  /\ call.op = "deleteBorehole"
  /\ call.writeFails
  /\ ret.kind = "throw"
  /\ HasBorehole(stored, call.projectId, call.boreholeId)

\* C9, as claimed: listing returns the persisted collection as a sequence, and
\* the empty sequence when the entry is absent, unreadable or corrupt; getProject
\* and the mutations never throw because of what is stored.
C9_ReadsNeverFail ==
  /\ call.op = "getProjects" =>
       /\ ret.kind = "value"
       /\ ret.val[1] = (IF stored.kind = "array" THEN stored.projects ELSE <<>>)
  /\ call.op = "getProject" => ret.kind # "throw"
  /\ (call.op \in Mutators /\ ret.kind = "throw") => call.writeFails

\* C3, as claimed: whatever partial record the caller passes, updateProject
\* leaves the project's id, createdAt and boreholes as they were, and
\* updateBorehole leaves the borehole's id and createdAt as they were.
C3_ProtectedFieldsKept ==
  [][/\ (call'.op = "updateProject" /\ ret'.kind = "value") =>
          LET i == FindIndexById(Listed(stored), call'.projectId)
              before == Listed(stored)[i]
              after == Listed(stored')[i]
          IN /\ after.id = before.id
             /\ after.createdAt = before.createdAt
             /\ after.boreholes = before.boreholes
     /\ (call'.op = "updateBorehole" /\ ret'.kind = "value") =>
          LET i == FindIndexById(Listed(stored), call'.projectId)
              j == FindIndexById(Listed(stored)[i].boreholes, call'.boreholeId)
              before == Listed(stored)[i].boreholes[j]
              after == Listed(stored')[i].boreholes[j]
          IN /\ after.id = before.id
             /\ after.createdAt = before.createdAt]_vars

\* ------------------------------------------------------------ the facade's claims

\* the facade's call gets as far as saveProjects
FacadeReachesWrite(F, st, c) ==
  CASE c.op = "createProject" -> TRUE
    [] c.op \in {"updateProject", "deleteProject"} -> HasProject(st, c.projectId)
    [] c.op = "addBorehole" ->
         F.currentProject # None /\ HasProject(st, F.currentProject[1].id)
    [] c.op \in {"updateBorehole", "deleteBorehole"} ->
         F.currentProject # None /\ HasBorehole(st, F.currentProject[1].id, c.boreholeId)
    [] OTHER -> FALSE

FailureMessages ==
  {"Failed to create project", "Failed to update project", "Failed to delete project",
   "Failed to add borehole", "Failed to update borehole", "Failed to delete borehole"}

\* C8: when the Store call of a facade mutation throws, the facade returns (no
\* exception escapes), the error slot holds a message, and projects,
\* currentProject and selectedBorehole are what they were before the call.
C8_FailedMutationLeavesState ==
  [][(/\ fcall'.op \in Mutators
      /\ fcall'.writeFails
      /\ FacadeReachesWrite(FacadeState, stored, fcall')) =>
       /\ fret'.kind # "throw"
       /\ error' \in FailureMessages
       /\ projects' = projects
       /\ currentProject' = currentProject
       /\ selectedBorehole' = selectedBorehole]_vars

\* a failed deleteProject of the current project, with a borehole selected
C8_Witness ==
  /\ fcall.op = "deleteProject"
  /\ fcall.writeFails
  /\ error = "Failed to delete project"
  /\ currentProject # None
  /\ currentProject[1].id = fcall.projectId
  /\ selectedBorehole # None

\* C10, as claimed: after every facade operation, the borehole operations
\* included, the facade's projects list equals the persisted collection.
C10_ProjectsEqualStore ==
  fcall.op # "none" => projects = getProjects(stored)

\* the facade's Store call threw
FacadeFailed(F, st, c) == c.writeFails /\ FacadeReachesWrite(F, st, c)

\* C11: after a facade mutation whose Store call did not throw, the scope it
\* reloads equals the store: projects is the persisted collection after
\* createProject, updateProject and deleteProject; a currentProject that is
\* not absent is the persisted record of its id, updatedAt included, after
\* addBorehole, updateBorehole and deleteBorehole.
C11_ReloadedScopeEqualsStore ==
  [][/\ (/\ fcall'.op \in {"createProject", "updateProject", "deleteProject"}
         /\ ~FacadeFailed(FacadeState, stored, fcall')) =>
          projects' = getProjects(stored')
     /\ (/\ fcall'.op \in {"addBorehole", "updateBorehole", "deleteBorehole"}
         /\ ~FacadeFailed(FacadeState, stored, fcall')
         /\ currentProject' # None) =>
          getProject(stored', currentProject'[1].id) = RetValue(currentProject'[1])]_vars

\* a borehole was added to the current project after the project was loaded
C11_Witness ==
  /\ fcall.op = "addBorehole"
  /\ ~fcall.writeFails
  /\ fret.kind = "value"
  /\ currentProject # None
  /\ Len(currentProject[1].boreholes) = 2
  /\ currentProject[1].updatedAt > currentProject[1].createdAt

\* the ids of the boreholes of a project
BoreholeIdsOf(project) == {project.boreholes[j].id : j \in 1..Len(project.boreholes)}

\* C12: deleteProject(id) on an existing project removes it with all its
\* boreholes in one write: getProject(id) is then absent, no listed project
\* holds a borehole of the deleted one, and the other projects are listed
\* unchanged in the same order.
C12_DeleteProjectRemovesAll ==
  [][(call'.op = "deleteProject" /\ ret'.kind = "true") =>
       LET before == Listed(stored)
           after == Listed(stored')
           i == FindIndexById(before, call'.projectId)
       IN /\ getProject(stored', call'.projectId) = RetNull
          /\ \A k \in 1..Len(after) :
               BoreholeIdsOf(after[k]) \cap BoreholeIdsOf(before[i]) = {}
          /\ Len(after) = Len(before) - 1
          /\ \A k \in 1..Len(after) :
               after[k] = IF k < i THEN before[k] ELSE before[k + 1]]_vars

\* the first of two projects was deleted; the one left holds a borehole
C12_Witness ==
  /\ call.op = "deleteProject"
  /\ ret.kind = "true"
  /\ Len(Listed(stored)) = 1
  /\ Listed(stored)[1].id < call.projectId
  /\ Listed(stored)[1].boreholes # <<>>

\* the fields of addBorehole's data that have a default
Defaulted == {"code", "status", "groundLevel", "totalDepth", "notes"}

\* C13: addBorehole on an existing project with no code, status, groundLevel,
\* totalDepth or notes supplied returns, and stores as the project's last
\* borehole, a borehole with code generateBoreholeCode(project) ("BH01" on a
\* project without boreholes), status "Planned", groundLevel and totalDepth
\* null, notes "", the latitude and longitude supplied, and createdAt equal to
\* updatedAt.
C13_AddBoreholeDefaults ==
  [][(/\ call'.op = "addBorehole"
      /\ ret'.kind = "value"
      /\ \A f \in Defaulted : call'.data[f] = Undefined) =>
       LET project == Listed(stored)[FindIndexById(Listed(stored), call'.projectId)]
           after == Listed(stored')[FindIndexById(Listed(stored'), call'.projectId)]
           returned == ret'.val[1]
           kept == after.boreholes[Len(after.boreholes)]
       IN /\ Len(after.boreholes) = Len(project.boreholes) + 1
          /\ \A b \in {returned, kept} :
               /\ b.id = returned.id
               /\ b.code = generateBoreholeCode(project)
               /\ project.boreholes = <<>> => b.code = "BH01"
               /\ \A k \in 1..Len(project.boreholes) : project.boreholes[k].code # b.code
               /\ b.status = "Planned"
               /\ b.groundLevel = Null
               /\ b.totalDepth = Null
               /\ b.notes = ""
               /\ b.latitude = call'.data.latitude
               /\ b.longitude = call'.data.longitude
               /\ b.createdAt = b.updatedAt]_vars

\* a second borehole added without a code to a project that holds "BH01"
C13_Witness ==
  /\ call.op = "addBorehole"
  /\ \A f \in Defaulted : call.data[f] = Undefined
  /\ ret.kind = "value"
  /\ ret.val[1].code = "BH02"
  /\ ret.val[1].status = "Planned"

\* the boreholes of a project that have this code
WithCode(project, code) ==
  {k \in 1..Len(project.boreholes) : project.boreholes[k].code = code}

\* C14: addBorehole with an explicit code that a borehole of the project
\* already has is accepted as it is: when the write succeeds it returns the new
\* borehole and stores it with exactly that code, and the project then holds
\* one more borehole with that code, so at least two.
C14_DuplicateCodeAccepted ==
  [][(/\ call'.op = "addBorehole"
      /\ ~call'.writeFails
      /\ HasProject(stored, call'.projectId)
      /\ WithCode(Listed(stored)[FindIndexById(Listed(stored), call'.projectId)],
                  call'.data.code) # {}) =>
       LET project == Listed(stored)[FindIndexById(Listed(stored), call'.projectId)]
           after == Listed(stored')[FindIndexById(Listed(stored'), call'.projectId)]
       IN /\ ret'.kind = "value"
          /\ ret'.val[1].code = call'.data.code
          /\ Len(after.boreholes) = Len(project.boreholes) + 1
          /\ after.boreholes[Len(after.boreholes)].id = ret'.val[1].id
          /\ after.boreholes[Len(after.boreholes)].code = call'.data.code
          /\ Cardinality(WithCode(after, call'.data.code))
               = Cardinality(WithCode(project, call'.data.code)) + 1
          /\ Cardinality(WithCode(after, call'.data.code)) >= 2]_vars

\* a project whose two boreholes both have the code "BH01"
C14_Witness ==
  /\ call.op = "addBorehole"
  /\ call.data.code = "BH01"
  /\ ret.kind = "value"
  /\ \E i \in 1..Len(Listed(stored)) :
       /\ Listed(stored)[i].id = call.projectId
       /\ Cardinality(WithCode(Listed(stored)[i], "BH01")) = 2

\* C15: whatever the entry holds, when createProject({name: X}) returns a
\* project, getProject of its id, called next, returns a record equal to it,
\* with name X, status "Active", no boreholes, coordinateSystem "WGS84" and
\* createdAt equal to updatedAt.
C15_CreateThenGetRoundTrip ==
  [][(call'.op = "createProject" /\ ret'.kind = "value") =>
       LET got == getProject(stored', ret'.val[1].id)
       IN /\ got = ret'
          /\ got.val[1].name = call'.data.name
          /\ got.val[1].status = "Active"
          /\ got.val[1].boreholes = <<>>
          /\ got.val[1].createdAt = got.val[1].updatedAt
          /\ call'.data.coordinateSystem = Undefined =>
               got.val[1].coordinateSystem = "WGS84"]_vars

\* createProject({name: "X"}) on a store that already held a project
C15_Witness ==
  /\ call.op = "createProject"
  /\ call.data.name = "X"
  /\ call.data.coordinateSystem = Undefined
  /\ ret.kind = "value"
  /\ Len(Listed(stored)) = 2
  /\ getProject(stored, ret.val[1].id) = ret

\* C16: after the facade's updateBorehole(bid, updates) succeeds on a borehole
\* of the current project while the selected borehole has the id bid, the
\* selected borehole is the updated record: the borehole with the id bid among
\* the boreholes of the reloaded currentProject, carrying the updates.
C16_SelectedBoreholeRefreshed ==
  [][(/\ fcall'.op = "updateBorehole"
      /\ ~fcall'.writeFails
      /\ currentProject # None
      /\ HasBorehole(stored, currentProject[1].id, fcall'.boreholeId)
      /\ selectedBorehole # None
      /\ selectedBorehole[1].id = fcall'.boreholeId) =>
       /\ currentProject' # None
       /\ selectedBorehole' # None
       /\ LET bs == currentProject'[1].boreholes
              j == FindIndexById(bs, fcall'.boreholeId)
          IN /\ j # 0
             /\ selectedBorehole'[1] = bs[j]
             /\ \A f \in DOMAIN fcall'.updates : bs[j][f] = fcall'.updates[f]
       /\ selectedBorehole'[1]
            = StoredBorehole(stored', currentProject[1].id, fcall'.boreholeId)]_vars

\* the selected borehole was updated a millisecond after it was created
C16_Witness ==
  /\ fcall.op = "updateBorehole"
  /\ ~fcall.writeFails
  /\ selectedBorehole # None
  /\ selectedBorehole[1].id = fcall.boreholeId
  /\ selectedBorehole[1].status = "Completed"
  /\ selectedBorehole[1].updatedAt > selectedBorehole[1].createdAt

\* C17, as claimed: the selected borehole is absent after every loadProject
\* call, for an id that is found or not, and after every deleteBorehole call
\* that names the id of the selected borehole.
C17_SelectionCleared ==
  [][/\ fcall'.op = "loadProject" => selectedBorehole' = None
     /\ (/\ fcall'.op = "deleteBorehole"
         /\ selectedBorehole # None
         /\ selectedBorehole[1].id = fcall'.boreholeId) =>
          selectedBorehole' = None]_vars

\* C17, amended: the selected borehole is absent after every loadProject call
\* that reads the store without failing, for an id that is found or not, and
\* after every deleteBorehole call that names the id of the selected borehole,
\* is made while a project is current, and whose Store call does not throw.
C17_SelectionClearedOnSuccess ==
  [][/\ (fcall'.op = "loadProject" /\ getProject(stored, fcall'.projectId).kind # "throw")
          => selectedBorehole' = None
     /\ (/\ fcall'.op = "deleteBorehole"
         /\ selectedBorehole # None
         /\ selectedBorehole[1].id = fcall'.boreholeId
         /\ currentProject # None
         /\ ~FacadeFailed(FacadeState, stored, fcall')) =>
          selectedBorehole' = None]_vars

\* the selected borehole of the current project was deleted
C17_Witness ==
  /\ fcall.op = "deleteBorehole"
  /\ fcall.selected # None
  /\ fcall.selected[1].id = fcall.boreholeId
  /\ ~fcall.writeFails
  /\ currentProject # None
  /\ ~HasBorehole(stored, currentProject[1].id, fcall.boreholeId)
  /\ selectedBorehole = None

\* C18: loadProject(id) with an id the store does not hold returns without
\* throwing, leaves currentProject absent and puts no message in the error
\* slot.
C18_LoadMissingProject ==
  [][(fcall'.op = "loadProject" /\ ~HasProject(stored, fcall'.projectId)) =>
       /\ fret'.kind # "throw"
       /\ currentProject' = None
       /\ error' = Null]_vars

\* loadProject of an id that is not among the stored projects
C18_Witness ==
  /\ fcall.op = "loadProject"
  /\ Listed(stored) # <<>>
  /\ ~HasProject(stored, fcall.projectId)
  /\ currentProject = None
  /\ error = Null

\* the message each mutation's catch block puts in the error slot
MessageOf(op) ==
  CASE op = "createProject" -> "Failed to create project"
    [] op = "updateProject" -> "Failed to update project"
    [] op = "deleteProject" -> "Failed to delete project"
    [] op = "addBorehole" -> "Failed to add borehole"
    [] op = "updateBorehole" -> "Failed to update borehole"
    [] op = "deleteBorehole" -> "Failed to delete borehole"

\* the facade operation leaves the error slot alone: selectBorehole, and a
\* borehole operation called while no project is current
LeavesError(F, c) ==
  \/ c.op = "selectBorehole"
  \/ c.op \in {"addBorehole", "updateBorehole", "deleteBorehole"} /\ F.currentProject = None

\* C19, as claimed: a failed facade operation puts its message in the error
\* slot, replacing an earlier one; the message then stays through every later
\* facade operation until clearError or a later failure; clearError sets the
\* slot to absent.
C19_ErrorStaysUntilCleared ==
  [][/\ (fcall'.op \in Mutators /\ FacadeFailed(FacadeState, stored, fcall')) =>
          error' = MessageOf(fcall'.op)
     /\ fcall'.op = "clearError" => error' = Null
     /\ (/\ error # Null
         /\ fcall'.op # "clearError"
         /\ ~(fcall'.op \in Mutators /\ FacadeFailed(FacadeState, stored, fcall'))) =>
          error' = error]_vars

\* C19, amended: a failed facade mutation puts its message in the error slot,
\* replacing an earlier one; clearError sets the slot to absent, and so does
\* every later loadProjects or loadProject and every later mutation that
\* reaches its Store call and does not fail; selectBorehole and a borehole
\* operation called while no project is current leave the slot as it is.
C19_ErrorUntilClearedOrReload ==
  [][/\ (fcall'.op \in Mutators /\ FacadeFailed(FacadeState, stored, fcall')) =>
          error' = MessageOf(fcall'.op)
     /\ fcall'.op = "clearError" => error' = Null
     /\ (fcall'.op = "none" \/ LeavesError(FacadeState, fcall')) => error' = error
     /\ (/\ fcall'.op \in Mutators \cup {"loadProjects", "loadProject"}
         /\ ~LeavesError(FacadeState, fcall')
         /\ ~(fcall'.op \in Mutators /\ FacadeFailed(FacadeState, stored, fcall'))) =>
          error' = Null]_vars

\* a failed updateBorehole has left its message
C19_Witness ==
  /\ fcall.op = "updateBorehole"
  /\ fcall.writeFails
  /\ error = "Failed to update borehole"
  /\ currentProject # None
  /\ HasBorehole(stored, currentProject[1].id, fcall.boreholeId)

\* ------------------------------------------------------------ the collection's claims

\* the ids of the stored projects and of all their boreholes, as sequences
AllProjectIds(st) == [i \in 1..Len(Listed(st)) |-> Listed(st)[i].id]

\* no value occurs twice in the sequence
Distinct(seq) == \A i, j \in 1..Len(seq) : seq[i] = seq[j] => i = j

\* C20, as claimed: in every state reached by Store or facade operations the
\* project ids are pairwise distinct, the borehole ids of each project are
\* pairwise distinct, and no borehole id occurs in two projects.
C20_IdsUnique ==
  LET ps == Listed(stored)
  IN /\ Distinct(AllProjectIds(stored))
     /\ \A i \in 1..Len(ps) :
          Distinct([j \in 1..Len(ps[i].boreholes) |-> ps[i].boreholes[j].id])
     /\ \A i, k \in 1..Len(ps) :
          i # k => BoreholeIdsOf(ps[i]) \cap BoreholeIdsOf(ps[k]) = {}

\* createdAt does not increase from the first project to the last
NewestFirst(ps) == \A i \in 1..(Len(ps) - 1) : ps[i].createdAt >= ps[i + 1].createdAt

\* C21: from the sample data, and from the empty store the callers can bring
\* it to, the stored projects are in newest-created-first order in every
\* state, and updateProject and the borehole mutations leave every project at
\* its position.
C21_NewestFirstOrder ==
  [][/\ NewestFirst(Listed(stored))
     /\ NewestFirst(Listed(stored'))
     /\ call'.op \in {"updateProject", "addBorehole", "updateBorehole", "deleteBorehole"}
          => AllProjectIds(stored') = AllProjectIds(stored)]_vars

\* a project was created after the sample data: it stands before the sample
\* project that is left
C21_Witness ==
  /\ call.op = "createProject"
  /\ ret.kind = "value"
  /\ Len(Listed(stored)) = 2
  /\ Listed(stored)[1].createdAt > Listed(stored)[2].createdAt
  /\ Listed(stored)[2].createdAt < 0

\* the boreholes stand in the order in which they were created: uuidv4() gave
\* each a later id, and the clock a createdAt that is not earlier
CreationOrder(bs) ==
  \A k \in 1..(Len(bs) - 1) :
    bs[k].id < bs[k + 1].id /\ bs[k].createdAt <= bs[k + 1].createdAt

\* C22: the boreholes of every project are in creation order in every state:
\* addBorehole puts the new borehole at the end, updateBorehole keeps the
\* borehole at its index, deleteBorehole removes the borehole it names and no
\* other, and the other boreholes keep their order in each case.
C22_BoreholesInCreationOrder ==
  [][LET before == Listed(stored)
         after == Listed(stored')
         i == FindIndexById(before, call'.projectId)
     IN /\ \A k \in 1..Len(after) : CreationOrder(after[k].boreholes)
        /\ (call'.op = "addBorehole" /\ ret'.kind = "value") =>
             /\ Len(after[i].boreholes) = Len(before[i].boreholes) + 1
             /\ SubSeq(after[i].boreholes, 1, Len(before[i].boreholes)) = before[i].boreholes
             /\ after[i].boreholes[Len(after[i].boreholes)].id = ret'.val[1].id
        /\ (call'.op = "updateBorehole" /\ ret'.kind = "value") =>
             LET j == FindIndexById(before[i].boreholes, call'.boreholeId)
             IN /\ Len(after[i].boreholes) = Len(before[i].boreholes)
                /\ after[i].boreholes[j].id = call'.boreholeId
                /\ \A k \in 1..Len(before[i].boreholes) :
                     k # j => after[i].boreholes[k] = before[i].boreholes[k]
        /\ (call'.op = "deleteBorehole" /\ ret'.kind = "true") =>
             LET j == FindIndexById(before[i].boreholes, call'.boreholeId)
             IN /\ Len(after[i].boreholes) = Len(before[i].boreholes) - 1
                /\ \A k \in 1..Len(after[i].boreholes) :
                     after[i].boreholes[k] = IF k < j THEN before[i].boreholes[k]
                                             ELSE before[i].boreholes[k + 1]]_vars

\* the first of a project's two boreholes was deleted: the later one is left
C22_Witness ==
  /\ call.op = "deleteBorehole"
  /\ ret.kind = "true"
  /\ \E i \in 1..Len(Listed(stored)) :
       /\ Listed(stored)[i].id = call.projectId
       /\ Len(Listed(stored)[i].boreholes) = 1
       /\ Listed(stored)[i].boreholes[1].id > call.boreholeId

\* C23: every successful updateProject, addBorehole, updateBorehole and
\* deleteBorehole sets the updatedAt of the project it names to a clock
\* reading taken during the call, whatever updatedAt the caller passes; a
\* stored project's updatedAt never decreases and is never earlier than its
\* createdAt, and its createdAt never changes.
C23_ProjectUpdatedAtRefreshed ==
  [][LET before == Listed(stored)
         after == Listed(stored')
     IN /\ ((call'.op \in {"updateProject", "addBorehole", "updateBorehole"}
               /\ ret'.kind = "value")
             \/ (call'.op = "deleteBorehole" /\ ret'.kind = "true")) =>
             LET i == FindIndexById(before, call'.projectId)
             IN /\ after[i].id = call'.projectId
                /\ after[i].updatedAt >= clock
                /\ after[i].updatedAt <= clock'
        /\ \A k \in 1..Len(after) :
             /\ after[k].updatedAt >= after[k].createdAt
             /\ \A i \in 1..Len(before) :
                  before[i].id = after[k].id =>
                    /\ after[k].updatedAt >= before[i].updatedAt
                    /\ after[k].createdAt = before[i].createdAt]_vars

\* updateProject was passed an updatedAt of its own that is not the time of the call
C23_Witness ==
  /\ call.op = "updateProject"
  /\ ret.kind = "value"
  /\ call.updates.updatedAt # clock
  /\ ret.val[1].updatedAt = clock
  /\ ret.val[1].updatedAt > ret.val[1].createdAt
  /\ getProject(stored, call.projectId) = ret

\* ------------------------------------------------------------ the two tabs' claims

\* every id in the collection, a project's or a borehole's
AllIds(st) ==
  {Listed(st)[i].id : i \in 1..Len(Listed(st))}
  \cup UNION {BoreholeIdsOf(Listed(st)[i]) : i \in 1..Len(Listed(st))}

\* C24: when a tab writes after another tab has written since its read, the
\* entry becomes exactly what the later writer computed from its own read, and
\* no record the earlier writer made is in it.
C24_LastWriterWins ==
  [][\A t \in Tabs :
       (/\ tabs[t].pc = "read"
        /\ tabs[t].stale
        /\ tabs'[t].pc = "done"
        /\ ~tabs'[t].writeFails
        /\ TabWrote(tabs[t], TRUE)) =>
         /\ stored' = TabApply(tabs[t], TRUE).stored
         /\ tabs[t].lost \cap AllIds(stored') = {}]_vars

\* both tabs added a borehole to the same project from the same read; the
\* project holds the later writer's borehole only
C24_Witness ==
  \E t \in Tabs, u \in Tabs :
    /\ t # u
    /\ tabs[t].pc = "done" /\ tabs[u].pc = "done"
    /\ tabs[t].call.op = "addBorehole" /\ tabs[u].call.op = "addBorehole"
    /\ tabs[t].call.projectId = tabs[u].call.projectId
    /\ tabs[t].snapshot = tabs[u].snapshot
    /\ ~tabs[t].writeFails /\ ~tabs[u].writeFails
    /\ tabs[t].stale
    /\ tabs[t].lost = {tabs[u].id}
    /\ tabs[t].id \in AllIds(stored)
    /\ tabs[u].id \notin AllIds(stored)

\* ------------------------------------------------------------ the sample data's claims

\* C25: initializeSampleData seeds exactly once: once the sample projects have
\* been written, no later call at an application start writes anything,
\* whatever the Store's operations did in between.
C25_SeedsExactlyOnce ==
  [][call'.op = "initializeSampleData" => stored' = stored]_vars

\* ------------------------------------------------------------ the selection's claims

\* C26: a selected borehole is a borehole of the current project: whenever
\* selectedBorehole is set, currentProject is set and holds a borehole with
\* the same id.
C26_SelectionInCurrentProject ==
  selectedBorehole # None =>
    /\ currentProject # None
    /\ selectedBorehole[1].id \in BoreholeIdsOf(currentProject[1])

\* C27: a facade borehole mutation that does not touch the selected borehole
\* keeps the selection: after addBorehole, and after updateBorehole or
\* deleteBorehole of a borehole with another id, selectedBorehole is set to
\* the borehole with the same id as before the call.
C27_SelectionKeptByOtherMutation ==
  [][(/\ selectedBorehole # None
      /\ \/ fcall'.op = "addBorehole"
         \/ /\ fcall'.op \in {"updateBorehole", "deleteBorehole"}
            /\ fcall'.boreholeId # selectedBorehole[1].id) =>
       /\ selectedBorehole' # None
       /\ selectedBorehole'[1].id = selectedBorehole[1].id]_vars

\* ------------------------------------------------------------ the codes' claims

\* the codes of the project's boreholes, in order
CodesOf(project) == [j \in 1..Len(project.boreholes) |-> project.boreholes[j].code]

\* C28: when every borehole is added without a code and no update changes a
\* code, the codes of a project's boreholes are pairwise distinct after any
\* sequence of addBorehole and deleteBorehole.
C28_GeneratedCodesDistinct ==
  \A i \in 1..Len(Listed(stored)) : Distinct(CodesOf(Listed(stored)[i]))

\* a gap left by deleteBorehole was filled: the project holds "BH02", "BH03"
\* and then "BH01", given to the borehole added last
C28_Witness ==
  /\ call.op = "addBorehole"
  /\ ret.kind = "value"
  /\ \E i \in 1..Len(Listed(stored)) :
       CodesOf(Listed(stored)[i]) = <<BHCode(2), BHCode(3), BHCode(1)>>

\* ------------------------------------------------------------ the frame's claims

\* C29: updateProject, addBorehole, updateBorehole and deleteBorehole on
\* project P leave the number and the order of the projects as they were, and
\* every project other than P exactly as it was, boreholes and updatedAt
\* included.
C29_OtherProjectsUntouched ==
  [][call'.op \in {"updateProject", "addBorehole", "updateBorehole", "deleteBorehole"} =>
       /\ Len(Listed(stored')) = Len(Listed(stored))
       /\ AllProjectIds(stored') = AllProjectIds(stored)
       /\ \A i \in 1..Len(Listed(stored)) :
            Listed(stored)[i].id # call'.projectId =>
              Listed(stored')[i] = Listed(stored)[i]]_vars

\* a borehole of one project was deleted, at a later time than the creation
\* of the other project, which still carries its first updatedAt
C29_Witness ==
  /\ call.op = "deleteBorehole"
  /\ ret.kind = "true"
  /\ Len(Listed(stored)) = 2
  /\ \E i, k \in 1..2 :
       /\ Listed(stored)[i].id = call.projectId
       /\ Listed(stored)[k].id # call.projectId
       /\ Listed(stored)[k].updatedAt < Listed(stored)[i].updatedAt

\* ------------------------------------------------------------ the pages' claims

\* C30: when the user chooses "Delete project" in the workspace and confirms,
\* the page is the project list afterwards and the project is neither in the
\* persisted collection nor in the facade's list.
C30_ConfirmedDeleteRemovesProject ==
  [][(fcall'.op = "Delete project" /\ fcall'.confirmed) =>
       /\ page' = ProjectsPage
       /\ ~HasProject(stored', fcall'.projectId)
       /\ FindIndexById(projects'.items, fcall'.projectId) = 0]_vars

====
